---------------------------- MODULE Spec2Model ----------------------------
(***************************************************************************)
(* A model of red-backup: the unit scanner and UnitSet (unit.rs,           *)
(* unitset.rs), the disperser (disperse.rs) as driven by run() (main.rs),  *)
(* the block streamer (block.rs), the redundancy engine (redundancy/) and  *)
(* the block-size optimiser (block_size.rs).                               *)
(*                                                                         *)
(* Conventions.                                                            *)
(*  - Vec indices are the 0-based indices of the source; At(s, i) reads    *)
(*    element i of a sequence.                                             *)
(*  - Lengths of files, units and media are counted in MiB, the unit in    *)
(*    which run() receives MEDIUM-SIZE.                                    *)
(*  - A u64 is modelled by an integer; a value that wrapped below zero     *)
(*    (2^64 - k) is represented by -k, which keeps +, - and = exact as     *)
(*    long as magnitudes stay small.                                       *)
(*  - The f64 measure sigma = sqrt(SUM (len_i - mean)^2 / (M - 1)) with    *)
(*    mean = sum / M is represented by the exact integer                   *)
(*    SUM (M * len_i - sum)^2 = sigma^2 * M^2 * (M - 1), which orders      *)
(*    arrangements over the same media exactly as sigma does.              *)
(***************************************************************************)
EXTENDS Integers, Sequences, FiniteSets, TLC

VARIABLES
    pc,               \* position of run() / of the component under test
    sets,             \* Vec<UnitSet>: each [units, total]
    scanned,          \* the UnitSet as from_path returned it (history)
    medium_size,      \* run(): medium_size
    est_media_count,  \* run(): est_media_count
    mean,             \* Disperse.mean as the fraction [sum, n]
    last_value,       \* value of the candidate executed last (-1: none)
    ops,              \* number of UnitSet operations applied (SpecUnitSet)
    block_size,       \* the block size handed to BlockIter::new / Redundancy::new
    file_table,       \* FileTable entries: [id, medium_id, size, data]
    iter,             \* a BlockIter (SpecBlock)
    emitted,          \* the blocks next_block has returned, in order (history)
    ret,              \* what the last call of next_block returned
    left_iter,        \* Redundancy::build: left_iter
    right_iter,       \* Redundancy::build: right_iter
    queue,            \* Redundancy.queue
    partial_indices,  \* Redundancy::build: partial_indices (of the open queue)
    redun_files,      \* files written by write_out_queue, with their indices
    counter,          \* Redundancy::build: counter
    stats,            \* Stats: [file_sizes, path_lens]
    optimal,          \* what BlockSize::block_size returned
    run_media,        \* run(): media, each a Medium
    layout,           \* run(): layout, the Layout
    temp_dirs,        \* the workspace directories made so far (file system)
    groups,           \* what the group loop wrote, group by group
    config,           \* build feature, arguments and environment of the run
    cycle,            \* a call of detect_cycle: [set, path, parent, result]
    af,               \* an AutoFill: [buf, width, hyphenation, line, overflow_word]
    yielded           \* the lines AutoFill::next has returned, in order (history)

unitVars == <<sets, scanned, medium_size, est_media_count, mean, last_value, ops>>

blockVars == <<block_size, file_table, iter, emitted, ret>>

redunVars == <<left_iter, right_iter, queue, partial_indices, redun_files, counter>>

sizeVars == <<stats, optimal>>

stageVars == <<run_media, layout, temp_dirs, groups, config>>

cycleVars == <<cycle>>

fillVars == <<af, yielded>>

vars ==
    <<pc, unitVars, blockVars, redunVars, sizeVars, stageVars, cycleVars,
      fillVars>>

---------------------------------------------------------------------------
(* Bounds of the model *)

MaxDirs == 3
MaxUnits == 4
MaxLenK == 4
MaxMedia == 6
MaxOps == 3

(* Program constants *)

SMALL_FILE_UPPER_BOUND == 10
GOAL == 5

---------------------------------------------------------------------------
(* Generic helpers *)

At(s, i) == s[i + 1]

Last(s) == s[Len(s)]

Front(s) == SubSeq(s, 1, Len(s) - 1)

RemoveAt(s, i) == SubSeq(s, 1, i) \o SubSeq(s, i + 2, Len(s))

RECURSIVE SumSeq(_)
SumSeq(s) == IF s = <<>> THEN 0 ELSE s[1] + SumSeq(Tail(s))

RECURSIVE Flatten(_)
Flatten(ss) == IF ss = <<>> THEN <<>> ELSE ss[1] \o Flatten(Tail(ss))

SeqsUpTo(S, lo, hi) == UNION {[1..n -> S] : n \in lo..hi}

Lens(units) == [i \in 1..Len(units) |-> units[i].len]

FileLens(files) == [i \in 1..Len(files) |-> files[i].len]

---------------------------------------------------------------------------
(* unit.rs *)

File(path, len, hidden) == [path |-> path, len |-> len, hidden |-> hidden]

\* Unit::new: the unit of one directory; len accumulates the file lengths.
RECURSIVE UnitNewLen(_)
UnitNewLen(entries) ==
    IF entries = <<>> THEN 0 ELSE entries[1].len + UnitNewLen(Tail(entries))

UnitNew(path, parent, entries) ==
    [parent |-> parent,
     len |-> UnitNewLen(entries),
     path |-> path,
     files |-> [k \in 1..Len(entries) |->
                  File(<<path, k>>, entries[k].len, entries[k].hidden)]]

\* Unit::is_small: no non-hidden file is larger than SMALL_FILE_UPPER_BOUND.
IsSmall(unit) ==
    \A k \in 1..Len(unit.files) :
        unit.files[k].hidden \/ ~(unit.files[k].len > SMALL_FILE_UPPER_BOUND)

\* A merge that forgets to add the merged unit's length.
MergeNoLen(into, unit) ==
    <<[into EXCEPT !.files = into.files \o unit.files],
      [unit EXCEPT !.files = <<>>, !.len = 0]>>

\* Unit::merge(self = into, unit): <<self', unit'>>.
Merge(into, unit) ==
    <<[into EXCEPT !.files = into.files \o unit.files, !.len = into.len + unit.len],
      [unit EXCEPT !.files = <<>>, !.len = 0]>>

---------------------------------------------------------------------------
(* unitset.rs *)

EmptySet == [units |-> <<>>, total |-> 0]

\* UnitSet::from_path over the directories in the order the walk visits
\* them (depth first): dirs[i] = [parent, entries].
RECURSIVE FromPathLoop(_, _, _, _)
FromPathLoop(dirs, i, set, len) ==
    IF i > Len(dirs) THEN [units |-> set, total |-> len]
    ELSE LET unit == UnitNew(i - 1, dirs[i].parent, dirs[i].entries)
         IN FromPathLoop(dirs, i + 1, Append(set, unit), len + unit.len)

FromPath(dirs) == FromPathLoop(dirs, 1, <<>>, 0)

\* An ancestor walk that stops at the parent.
PlanAncestorParent(units, ancestor) == ancestor

\* plan_merges: the ancestor walk of one small unit.
RECURSIVE PlanAncestor(_, _)
PlanAncestor(units, ancestor) ==
    IF ancestor = 0 THEN 0
    ELSE IF ~IsSmall(At(units, ancestor)) THEN ancestor
    ELSE PlanAncestor(units, At(units, ancestor).parent)

RECURSIVE PlanLoop(_, _)
PlanLoop(units, index) ==
    IF index >= Len(units) THEN <<>>
    ELSE LET ancestor == PlanAncestor(units, At(units, index).parent)
         IN IF IsSmall(At(units, index)) /\ index # ancestor
            THEN <<<<index, ancestor>>>> \o PlanLoop(units, index + 1)
            ELSE PlanLoop(units, index + 1)

PlanMerges(us) == PlanLoop(us.units, 0)

\* execute_merges, first loop: merge every pair in plan order.
RECURSIVE MergeLoop(_, _)
MergeLoop(units, plan) ==
    IF plan = <<>> THEN units
    ELSE LET merge == plan[1][1]
             into == plan[1][2]
             m == Merge(At(units, into), At(units, merge))
         IN MergeLoop([units EXCEPT ![into + 1] = m[1], ![merge + 1] = m[2]],
                      Tail(plan))

\* A removal loop that follows the plan from its first pair.
RECURSIVE RemoveLoopForward(_, _)
RemoveLoopForward(units, plan) ==
    IF plan = <<>> THEN units
    ELSE RemoveLoopForward(RemoveAt(units, plan[1][1]), Tail(plan))

\* execute_merges, second loop: remove the merged units in reverse plan order.
RECURSIVE RemoveLoop(_, _)
RemoveLoop(units, plan) ==
    IF plan = <<>> THEN units
    ELSE RemoveLoop(RemoveAt(units, Last(plan)[1]), Front(plan))

\* The two assertions of execute_merges hold for the whole plan.
RECURSIVE RemoveAsserts(_, _)
RemoveAsserts(units, plan) ==
    IF plan = <<>> THEN TRUE
    ELSE /\ Last(plan)[1] < Len(units)
         /\ Len(At(units, Last(plan)[1]).files) = 0
         /\ RemoveAsserts(RemoveAt(units, Last(plan)[1]), Front(plan))

MergeAsserts(us, plan) ==
    /\ \A k \in 1..Len(plan) : plan[k][1] # plan[k][2]
    /\ RemoveAsserts(MergeLoop(us.units, plan), plan)

ExecuteMergesOp(us, plan) ==
    [units |-> RemoveLoop(MergeLoop(us.units, plan), plan), total |-> us.total]

\* shift_from(self, unit_set): <<self', unit_set'>>; unit_set.1 is not touched.
ShiftFromOp(self, unit_set) ==
    LET first == unit_set.units[1]
    IN <<[units |-> Append(self.units, first), total |-> self.total + first.len],
         [unit_set EXCEPT !.units = Tail(unit_set.units)]>>

\* undo_shift(self, unit_set): <<self', unit_set'>>; unit_set.1 is not touched.
UndoShiftOp(self, unit_set) ==
    LET last == Last(self.units)
    IN <<[units |-> Front(self.units), total |-> self.total - last.len],
         [unit_set EXCEPT !.units = <<last>> \o unit_set.units]>>

\* A shift_to that appends the unit to the other set instead of inserting it
\* at its head.
ShiftToAppend(self, other) ==
    LET last == Last(self.units)
    IN <<[units |-> Front(self.units), total |-> self.total - last.len],
         [units |-> Append(other.units, last), total |-> other.total + last.len]>>

\* A shift_to that forgets other.1 += last.len.
ShiftToNoAdd(self, other) ==
    LET last == Last(self.units)
    IN <<[units |-> Front(self.units), total |-> self.total - last.len],
         [units |-> <<last>> \o other.units, total |-> other.total]>>

\* shift_to(self, other) on a non-empty self: <<self', other'>>.
ShiftToOp(self, other) ==
    LET last == Last(self.units)
    IN <<[units |-> Front(self.units), total |-> self.total - last.len],
         [units |-> <<last>> \o other.units, total |-> other.total + last.len]>>

---------------------------------------------------------------------------
(* disperse.rs *)

\* Disperse::new: mean = sum / media.len(), kept as the fraction [sum, n].
DisperseNew(media) ==
    [sum |-> SumSeq([i \in 1..Len(media) |-> media[i].total]), n |-> Len(media)]

\* measure_impl(mean, media_lens), as sigma^2 * n^2 * (media_lens.len() - 1).
MeasureImpl(m, media_lens) ==
    SumSeq([i \in 1..Len(media_lens) |->
              (m.n * media_lens[i] - m.sum) * (m.n * media_lens[i] - m.sum)])

\* Disperse::measure
Measure(media, m) == MeasureImpl(m, [i \in 1..Len(media) |-> media[i].total])

\* Disperse::is_goal_met: sigma / mean * 100 < goal. With mean = 0 the
\* quotient is NaN and the comparison is false.
IsGoalMet(media, m) ==
    /\ m.sum # 0
    /\ (100 \div GOAL) * (100 \div GOAL) * Measure(media, m)
         < (Len(media) - 1) * m.sum * m.sum

\* Candidate::new: Err(EmptyUnitSet) is [ok |-> FALSE].
CandidateNew(media, from_medium, m) ==
    IF media[from_medium + 1].units = <<>>
    THEN [ok |-> FALSE, from_medium |-> from_medium, value |-> 0]
    ELSE LET last_unit == Last(media[from_medium + 1].units)
             new_lens == [k \in 1..Len(media) |->
                            LET i == k - 1
                                len == media[k].total
                            IN IF i = from_medium THEN len - last_unit.len
                               ELSE IF i = from_medium + 1 THEN len + last_unit.len
                               ELSE len]
         IN [ok |-> TRUE, from_medium |-> from_medium,
             value |-> MeasureImpl(m, new_lens)]

\* The candidates of one iteration of disperse(), in medium order.
RECURSIVE CandidatesFrom(_, _, _)
CandidatesFrom(media, medium_index, m) ==
    IF medium_index >= Len(media) - 1 THEN <<>>
    ELSE LET c == CandidateNew(media, medium_index, m)
         IN IF media[medium_index + 1].total > 0 /\ c.ok
            THEN <<c>> \o CandidatesFrom(media, medium_index + 1, m)
            ELSE CandidatesFrom(media, medium_index + 1, m)

Candidates(media, m) == CandidatesFrom(media, 0, m)

\* minmax_by_key(value).1: the last candidate of maximal value.
BestCandidateMax(candidates) ==
    LET k == CHOOSE k \in 1..Len(candidates) :
                 /\ \A j \in 1..Len(candidates) :
                        candidates[k].value >= candidates[j].value
                 /\ \A j \in (k + 1)..Len(candidates) :
                        candidates[j].value < candidates[k].value
    IN candidates[k]

\* the last candidate of minimal value
BestCandidateLast(candidates) ==
    LET k == CHOOSE k \in 1..Len(candidates) :
                 /\ \A j \in 1..Len(candidates) :
                        candidates[k].value <= candidates[j].value
                 /\ \A j \in (k + 1)..Len(candidates) :
                        candidates[j].value > candidates[k].value
    IN candidates[k]

\* minmax_by_key(value).0: the first candidate of minimal value.
BestCandidate(candidates) ==
    LET k == CHOOSE k \in 1..Len(candidates) :
                 /\ \A j \in 1..Len(candidates) :
                        candidates[k].value <= candidates[j].value
                 /\ \A j \in 1..(k - 1) :
                        candidates[j].value > candidates[k].value
    IN candidates[k]

\* An acceptance test that also takes a candidate that improves nothing.
AcceptsNoWorse(value, measure) == value <= measure

\* disperse(): best_candidate.value < self.measure()
Accepts(value, measure) == value < measure

\* Candidate::execute
CandidateExecute(media, c) ==
    LET moved == ShiftToOp(media[c.from_medium + 1], media[c.from_medium + 2])
    IN [media EXCEPT ![c.from_medium + 1] = moved[1],
                     ![c.from_medium + 2] = moved[2]]

---------------------------------------------------------------------------
(* main.rs: run() up to the end of the disperse loop *)

\* run(): the estimate of the media count, made even.
EstMediaCount(len, size) ==
    LET est == (len + (size - 1)) \div size
    IN IF est % 2 = 1 THEN est + 1 ELSE est

\* disperse_over: pad the sets with empty ones up to est_media_count.
RECURSIVE PadSets(_, _)
PadSets(s, n) == IF Len(s) < n THEN PadSets(Append(s, EmptySet), n) ELSE s

\* run(): plan_merges and execute_merges on the scanned unit set.
ExecuteMerges ==
    /\ pc = "scanned"
    /\ LET plan == PlanMerges(sets[1])
       IN IF MergeAsserts(sets[1], plan)
          THEN /\ sets' = [sets EXCEPT ![1] = ExecuteMergesOp(sets[1], plan)]
               /\ pc' = "merged"
          ELSE /\ pc' = "panicked"
               /\ UNCHANGED sets
    /\ UNCHANGED <<scanned, medium_size, est_media_count, mean, last_value, ops>>
    /\ UNCHANGED <<blockVars, redunVars, sizeVars>>
    /\ UNCHANGED stageVars
    /\ UNCHANGED <<cycleVars, fillVars>>

ExceedsInTotal(set, size) == set.total > size

\* run(): if unit_set.iter().any(|unit| unit.len > medium_size)
Exceeds(set, size) == \E k \in 1..Len(set.units) : set.units[k].len > size

\* run(): the unit length check and the estimate of the media count.
CheckUnits ==
    /\ pc = "merged"
    /\ IF Exceeds(sets[1], medium_size)
       THEN /\ pc' = "panicked"
            /\ UNCHANGED est_media_count
       ELSE /\ est_media_count' = EstMediaCount(sets[1].total, medium_size)
            /\ pc' = "estimated"
    /\ UNCHANGED <<sets, scanned, medium_size, mean, last_value, ops>>
    /\ UNCHANGED <<blockVars, redunVars, sizeVars>>
    /\ UNCHANGED stageVars
    /\ UNCHANGED <<cycleVars, fillVars>>

\* disperse_over up to Disperse::new.
DisperseOver ==
    /\ pc = "estimated"
    /\ IF Len(sets) <= est_media_count
       THEN /\ sets' = PadSets(sets, est_media_count)
            /\ mean' = DisperseNew(sets')
            /\ pc' = "disperse"
       ELSE /\ pc' = "panicked"
            /\ UNCHANGED <<sets, mean>>
    /\ UNCHANGED <<scanned, medium_size, est_media_count, last_value, ops>>
    /\ UNCHANGED <<blockVars, redunVars, sizeVars>>
    /\ UNCHANGED stageVars
    /\ UNCHANGED <<cycleVars, fillVars>>

\* One iteration of disperse() that executes its best candidate.
DisperseShift ==
    /\ pc = "disperse"
    /\ ~IsGoalMet(sets, mean)
    /\ \E candidates \in {Candidates(sets, mean)} :
          /\ candidates # <<>>
          /\ \E best_candidate \in {BestCandidate(candidates)} :
                /\ Accepts(best_candidate.value, Measure(sets, mean))
                /\ sets' = CandidateExecute(sets, best_candidate)
                /\ last_value' = best_candidate.value
    /\ UNCHANGED <<pc, scanned, medium_size, est_media_count, mean, ops>>
    /\ UNCHANGED <<blockVars, redunVars, sizeVars>>
    /\ UNCHANGED stageVars
    /\ UNCHANGED <<cycleVars, fillVars>>

\* The end of disperse(): goal met, no candidates, or no improvement.
DisperseBreak ==
    /\ pc = "disperse"
    /\ \E candidates \in {Candidates(sets, mean)} :
          \/ IsGoalMet(sets, mean)
          \/ candidates = <<>>
          \/ /\ candidates # <<>>
             /\ ~Accepts(BestCandidate(candidates).value, Measure(sets, mean))
    /\ pc' = "dispersed"
    /\ UNCHANGED <<sets, scanned, medium_size, est_media_count, mean, last_value, ops>>
    /\ UNCHANGED <<blockVars, redunVars, sizeVars>>
    /\ UNCHANGED stageVars
    /\ UNCHANGED <<cycleVars, fillVars>>

\* run(): leave the loop when every set fits a medium, else add two media.
MediaCheck ==
    /\ pc = "dispersed"
    /\ IF \A k \in 1..Len(sets) : sets[k].total <= medium_size
       THEN /\ pc' = "done"
            /\ UNCHANGED est_media_count
       ELSE /\ est_media_count + 2 <= MaxMedia
            /\ est_media_count' = est_media_count + 2
            /\ pc' = "estimated"
    /\ UNCHANGED <<sets, scanned, medium_size, mean, last_value, ops>>
    /\ UNCHANGED <<blockVars, redunVars, sizeVars>>
    /\ UNCHANGED stageVars
    /\ UNCHANGED <<cycleVars, fillVars>>

---------------------------------------------------------------------------
(* Inputs *)

\* Directory contents: the non-directory entries of one directory.
Entry(len, hidden) == [len |-> len, hidden |-> hidden]

DirContents ==
    { <<>>,
      <<Entry(3, FALSE)>>,
      <<Entry(12, FALSE)>>,
      <<Entry(3, FALSE), Entry(20, FALSE)>>,
      <<Entry(30, TRUE)>> }

\* Parent indices as a depth-first walk produces them: the root is its own
\* parent, every other directory hangs off the path to its predecessor.
RECURSIVE OnPath(_, _, _)
OnPath(parents, a, i) ==
    \/ a = i
    \/ i # 0 /\ OnPath(parents, a, At(parents, i))

IsWalkOrder(parents) ==
    /\ At(parents, 0) = 0
    /\ \A i \in 1..(Len(parents) - 1) :
          /\ At(parents, i) < i
          /\ OnPath(parents, At(parents, i), i - 1)

DirTrees ==
    UNION {{[i \in 1..n |-> [parent |-> p[i], entries |-> e[i]]] :
               p \in {q \in [1..n -> 0..(n - 1)] : IsWalkOrder(q)},
               e \in [1..n -> DirContents]} : n \in 1..MaxDirs}

MediumSizes == {20, 40, 100}

UnitLens == {10 * k : k \in 0..MaxLenK}

\* A flat tree of directories holding one file each.
FlatDirs(lens) ==
    [i \in 1..Len(lens) |-> [parent |-> 0, entries |-> <<Entry(lens[i], FALSE)>>]]

---------------------------------------------------------------------------
(* The components a specification does not exercise stay as constructed *)

BlockIdle ==
    /\ block_size = 0
    /\ file_table = <<>>
    /\ iter = [block_size |-> 0, file_id |-> 0, block_id |-> 0,
               file |-> [open |-> FALSE, data |-> <<>>, pos |-> 0],
               file_iter |-> <<>>]
    /\ emitted = <<>>
    /\ ret = <<>>

RedunIdle ==
    /\ left_iter = [block_size |-> 0, file_id |-> 0, block_id |-> 0,
                    file |-> [open |-> FALSE, data |-> <<>>, pos |-> 0],
                    file_iter |-> <<>>]
    /\ right_iter = left_iter
    /\ queue = <<>>
    /\ partial_indices = <<>>
    /\ redun_files = <<>>
    /\ counter = 0

SizeIdle ==
    /\ stats = [file_sizes |-> <<>>, path_lens |-> <<>>]
    /\ optimal = 0

\* a release build without --work-dir; the system temporary directory is
\* writable and on another file system than the source directory, which
\* is writable
DefaultConfig ==
    [debug |-> FALSE, work_dir |-> <<>>,
     tmp |-> [writable |-> TRUE, same_fs |-> FALSE],
     source |-> [writable |-> TRUE],
     forced |-> [writable |-> TRUE, same_fs |-> TRUE]]

StageIdle ==
    /\ run_media = <<>>
    /\ layout = [made |-> FALSE, closed |-> FALSE, temp_dir |-> <<>>,
                 locations |-> <<>>, selection |-> 0, orders |-> <<>>]
    /\ temp_dirs = <<>>
    /\ groups = <<>>

CycleIdle == cycle = [set |-> <<>>, path |-> <<>>, parent |-> 0, result |-> <<>>]

FillIdle ==
    /\ af = [buf |-> <<>>, width |-> 0, hyphenation |-> FALSE, line |-> <<>>,
             overflow_word |-> <<>>, checked |-> FALSE]
    /\ yielded = <<>>

UnitIdle ==
    /\ sets = <<>>
    /\ scanned = [units |-> <<>>, total |-> 0]
    /\ medium_size = 0
    /\ est_media_count = 0
    /\ mean = [sum |-> 0, n |-> 1]
    /\ last_value = -1
    /\ ops = 0

(* Spec: run() from the scan to the end of the disperse loop *)

InitRun ==
    /\ \E dirs \in DirTrees :
          /\ sets = <<FromPath(dirs)>>
          /\ scanned = FromPath(dirs)
    /\ medium_size \in MediumSizes
    /\ pc = "scanned"
    /\ est_media_count = 0
    /\ mean = [sum |-> 0, n |-> 1]
    /\ last_value = -1
    /\ ops = 0
    /\ BlockIdle /\ RedunIdle /\ SizeIdle
    /\ StageIdle /\ config = DefaultConfig /\ CycleIdle
    /\ FillIdle

NextRun ==
    \/ ExecuteMerges
    \/ CheckUnits
    \/ DisperseOver
    \/ DisperseShift
    \/ DisperseBreak
    \/ MediaCheck

Spec == InitRun /\ [][NextRun]_vars

(* SpecDisperse: the disperse loop of run() over any sequence of units *)

InitDisperse ==
    /\ \E lens \in SeqsUpTo(UnitLens, 1, MaxUnits) :
          /\ sets = <<FromPath(FlatDirs(lens))>>
          /\ scanned = FromPath(FlatDirs(lens))
    /\ medium_size \in MediumSizes
    /\ pc = "merged"
    /\ est_media_count = 0
    /\ mean = [sum |-> 0, n |-> 1]
    /\ last_value = -1
    /\ ops = 0
    /\ BlockIdle /\ RedunIdle /\ SizeIdle
    /\ StageIdle /\ config = DefaultConfig /\ CycleIdle
    /\ FillIdle

NextDisperse ==
    \/ CheckUnits
    \/ DisperseOver
    \/ DisperseShift
    \/ DisperseBreak
    \/ MediaCheck

SpecDisperse == InitDisperse /\ [][NextDisperse]_vars

FairDisperse == SpecDisperse /\ WF_vars(NextDisperse)

(* SpecUnitSet: the operations of UnitSet applied to two sets *)

InitUnitSet ==
    /\ \E dirs \in DirTrees :
          /\ sets = <<FromPath(dirs), EmptySet>>
          /\ scanned = FromPath(dirs)
    /\ medium_size = 100
    /\ pc = "scanned"
    /\ est_media_count = 0
    /\ mean = [sum |-> 0, n |-> 1]
    /\ last_value = -1
    /\ ops = 0
    /\ BlockIdle /\ RedunIdle /\ SizeIdle
    /\ StageIdle /\ config = DefaultConfig /\ CycleIdle
    /\ FillIdle

UnitSetReady == pc \in {"scanned", "merged", "shifted"} /\ ops < MaxOps

\* self.shift_to(other); Err(EmptyUnitSet) leaves both sets alone.
UnitSetShiftTo ==
    /\ UnitSetReady
    /\ \E self \in 1..Len(sets), other \in 1..Len(sets) :
          /\ self # other
          /\ IF sets[self].units = <<>>
             THEN UNCHANGED sets
             ELSE LET moved == ShiftToOp(sets[self], sets[other])
                  IN sets' = [sets EXCEPT ![self] = moved[1], ![other] = moved[2]]
    /\ pc' = "shifted"
    /\ ops' = ops + 1
    /\ UNCHANGED <<scanned, medium_size, est_media_count, mean, last_value>>
    /\ UNCHANGED <<blockVars, redunVars, sizeVars>>
    /\ UNCHANGED stageVars
    /\ UNCHANGED <<cycleVars, fillVars>>

\* self.shift_from(unit_set); the assertion fails on an empty unit_set.
UnitSetShiftFrom ==
    /\ UnitSetReady
    /\ \E self \in 1..Len(sets), unit_set \in 1..Len(sets) :
          /\ self # unit_set
          /\ IF sets[unit_set].units = <<>>
             THEN /\ pc' = "panicked"
                  /\ UNCHANGED sets
             ELSE LET moved == ShiftFromOp(sets[self], sets[unit_set])
                  IN /\ sets' = [sets EXCEPT ![self] = moved[1], ![unit_set] = moved[2]]
                     /\ pc' = "shifted"
    /\ ops' = ops + 1
    /\ UNCHANGED <<scanned, medium_size, est_media_count, mean, last_value>>
    /\ UNCHANGED <<blockVars, redunVars, sizeVars>>
    /\ UNCHANGED stageVars
    /\ UNCHANGED <<cycleVars, fillVars>>

\* self.undo_shift(unit_set); the assertion fails on an empty self.
UnitSetUndoShift ==
    /\ UnitSetReady
    /\ \E self \in 1..Len(sets), unit_set \in 1..Len(sets) :
          /\ self # unit_set
          /\ IF sets[self].units = <<>>
             THEN /\ pc' = "panicked"
                  /\ UNCHANGED sets
             ELSE LET moved == UndoShiftOp(sets[self], sets[unit_set])
                  IN /\ sets' = [sets EXCEPT ![self] = moved[1], ![unit_set] = moved[2]]
                     /\ pc' = "shifted"
    /\ ops' = ops + 1
    /\ UNCHANGED <<scanned, medium_size, est_media_count, mean, last_value>>
    /\ UNCHANGED <<blockVars, redunVars, sizeVars>>
    /\ UNCHANGED stageVars
    /\ UNCHANGED <<cycleVars, fillVars>>

\* self.1 -= last.len of shift_to and undo_shift below zero: a build with
\* overflow checks panics there (one without wraps, as the operators do).
UnitSetUnderflow ==
    /\ UnitSetReady
    /\ \E self \in 1..Len(sets) :
          /\ sets[self].units # <<>>
          /\ sets[self].total < Last(sets[self].units).len
    /\ pc' = "panicked"
    /\ ops' = ops + 1
    /\ UNCHANGED <<sets, scanned, medium_size, est_media_count, mean, last_value>>
    /\ UNCHANGED <<blockVars, redunVars, sizeVars>>
    /\ UNCHANGED stageVars
    /\ UNCHANGED <<cycleVars, fillVars>>

NextUnitSet ==
    \/ ExecuteMerges
    \/ UnitSetShiftTo
    \/ UnitSetShiftFrom
    \/ UnitSetUndoShift
    \/ UnitSetUnderflow

SpecUnitSet == InitUnitSet /\ [][NextUnitSet]_vars

---------------------------------------------------------------------------
(***************************************************************************)
(* block.rs: the block streamer.  A file on disk is the sequence of its    *)
(* bytes (0..255); an open fs::File is the bytes with a read position.     *)
(* I/O errors of open and read are outside the model.                      *)
(***************************************************************************)

MaxFiles == 3
MaxBlockSize == 5
MaxSideFiles == 2

\* Option<T>: None is the empty sequence, Some(x) the sequence of x alone
None == <<>>

Some(x) == <<x>>

Unwrap(o) == o[1]

Min(a, b) == IF a < b THEN a ELSE b

Max(a, b) == IF a < b THEN b ELSE a

Zeros(n) == [i \in 1..n |-> 0]

BlockFile(id, data) == [id |-> id, data |-> data]

Closed == [open |-> FALSE, data |-> <<>>, pos |-> 0]

Opened(data) == [open |-> TRUE, data |-> data, pos |-> 0]

Block(file_id, block_id, data) ==
    [file_id |-> file_id, block_id |-> block_id, data |-> data]

\* open_next: the iterator after the call and the bool it returns
OpenNext(self) ==
    IF self.file_iter # <<>>
    THEN LET file == Head(self.file_iter)
         IN  [self |-> [self EXCEPT !.file_id = file.id,
                                    !.file = Opened(file.data),
                                    !.file_iter = Tail(self.file_iter)],
              ok |-> TRUE]
    ELSE [self |-> [self EXCEPT !.file = Closed], ok |-> FALSE]

BlockIterNew(size, file_iter) ==
    OpenNext([block_size |-> size, file_id |-> 0, block_id |-> 0,
              file |-> Closed, file_iter |-> file_iter]).self

\* A read loop that leaves the last byte of the buffer unread.
RECURSIVE ReadLoopShy(_, _, _, _)
ReadLoopShy(file, block, bytes_read, size) ==
    IF bytes_read < size - 1
    THEN LET byte_count == Min(size - 1 - bytes_read, Len(file.data) - file.pos)
         IN  IF byte_count = 0
             THEN [file |-> file, block |-> block, bytes_read |-> bytes_read]
             ELSE ReadLoopShy([file EXCEPT !.pos = @ + byte_count],
                              [i \in 1..size |->
                                  IF bytes_read < i /\ i <= bytes_read + byte_count
                                  THEN file.data[file.pos + i - bytes_read]
                                  ELSE block[i]],
                              bytes_read + byte_count, size)
    ELSE [file |-> file, block |-> block, bytes_read |-> bytes_read]

\* the while loop of next_block; a read returns the bytes that are left,
\* up to the room in the buffer, and 0 at the end of the file
RECURSIVE ReadLoop(_, _, _, _)
ReadLoop(file, block, bytes_read, size) ==
    IF bytes_read < size
    THEN LET byte_count == Min(size - bytes_read, Len(file.data) - file.pos)
         IN  IF byte_count = 0
             THEN [file |-> file, block |-> block, bytes_read |-> bytes_read]
             ELSE ReadLoop([file EXCEPT !.pos = @ + byte_count],
                           [i \in 1..size |->
                               IF bytes_read < i /\ i <= bytes_read + byte_count
                               THEN file.data[file.pos + i - bytes_read]
                               ELSE block[i]],
                           bytes_read + byte_count, size)
    ELSE [file |-> file, block |-> block, bytes_read |-> bytes_read]

SplitOffKeepsAll(block, bytes_read) == block

\* block.split_off(bytes_read): the block keeps its first bytes_read bytes
SplitOff(block, bytes_read) == SubSeq(block, 1, bytes_read)

\* A next_block that returns the empty block read at the end of a file.
RECURSIVE NextBlockAtEnd(_)
NextBlockAtEnd(self) ==
    IF ~self.file.open
    THEN LET o == OpenNext(self)
         IN  IF o.ok
             THEN NextBlockAtEnd([o.self EXCEPT !.block_id = 0])
             ELSE [self |-> o.self, ret |-> None]
    ELSE LET taken == [self EXCEPT !.file = Closed]
             r == ReadLoop(self.file, Zeros(self.block_size), 0, self.block_size)
         IN  [self |-> IF ~(r.bytes_read < self.block_size)
                       THEN [taken EXCEPT !.file = r.file, !.block_id = @ + 1]
                       ELSE taken,
              ret |-> Some(Block(self.file_id, self.block_id,
                                 SplitOff(r.block, r.bytes_read)))]

\* next_block: the iterator after the call and the Option<Block> returned
RECURSIVE NextBlock(_)
NextBlock(self) ==
    IF ~self.file.open
    THEN LET o == OpenNext(self)
         IN  IF o.ok
             THEN NextBlock([o.self EXCEPT !.block_id = 0])
             ELSE [self |-> o.self, ret |-> None]
    ELSE LET taken == [self EXCEPT !.file = Closed]
             r == ReadLoop(self.file, Zeros(self.block_size), 0, self.block_size)
         IN  IF r.bytes_read > 0
             THEN [self |-> IF ~(r.bytes_read < self.block_size)
                            THEN [taken EXCEPT !.file = r.file,
                                               !.block_id = @ + 1]
                            ELSE taken,
                   ret |-> Some(Block(self.file_id, self.block_id,
                                      SplitOff(r.block, r.bytes_read)))]
             ELSE NextBlock(taken)

(***************************************************************************)
(* index.rs: FileTable::new numbers the files of a group densely, medium   *)
(* by medium.  A medium is given as [id, files], a file as its bytes.      *)
(***************************************************************************)

RECURSIVE FileTableAdd(_, _)
FileTableAdd(table, media) ==
    IF media = <<>> THEN table
    ELSE LET medium == Head(media)
         IN  IF medium.files = <<>> THEN FileTableAdd(table, Tail(media))
             ELSE FileTableAdd(
                    Append(table, [id |-> Len(table), medium_id |-> medium.id,
                                   size |-> Len(Head(medium.files)),
                                   data |-> Head(medium.files)]),
                    <<[medium EXCEPT !.files = Tail(@)]>> \o Tail(media))

FileTableNew(media) == FileTableAdd(<<>>, media)

\* file_table.entries().iter().filter(medium_id == id).map(block::File::new)
RECURSIVE FilesOfMedium(_, _)
FilesOfMedium(table, id) ==
    IF table = <<>> THEN <<>>
    ELSE (IF Head(table).medium_id = id
          THEN <<BlockFile(Head(table).id, Head(table).data)>> ELSE <<>>)
         \o FilesOfMedium(Tail(table), id)

(* Inputs of the streamer and of the engine *)

FileL == <<0, 30, 128, 10, 84, 97, 98, 99, 100, 101>>

FileR == <<90, 1, 74, 121, 3, 0, 0, 0, 0, 0>>

FileData == {<<>>, <<7, 255, 128>>, FileL, FileR}

BlockSizes == 1..MaxBlockSize

(* SpecBlock: a BlockIter over the files of one medium, called until and   *)
(* after it is exhausted                                                   *)

InitBlock ==
    /\ pc = "streaming"
    /\ block_size \in BlockSizes
    /\ \E files \in SeqsUpTo(FileData, 0, MaxFiles) :
          file_table = FileTableNew(<<[id |-> 0, files |-> files]>>)
    /\ iter = BlockIterNew(block_size, FilesOfMedium(file_table, 0))
    /\ emitted = <<>>
    /\ ret = None
    /\ UnitIdle /\ RedunIdle /\ SizeIdle
    /\ StageIdle /\ config = DefaultConfig /\ CycleIdle
    /\ FillIdle

CallNextBlock ==
    /\ pc \in {"streaming", "exhausted"}
    /\ \E r \in {NextBlock(iter)} :
          /\ iter' = r.self
          /\ ret' = r.ret
          /\ emitted' = IF r.ret = None THEN emitted
                         ELSE Append(emitted, Unwrap(r.ret))
          /\ pc' = IF r.ret = None THEN "exhausted" ELSE "streaming"
    /\ UNCHANGED <<block_size, file_table>>
    /\ UNCHANGED <<unitVars, redunVars, sizeVars>>
    /\ UNCHANGED stageVars
    /\ UNCHANGED <<cycleVars, fillVars>>

NextBlockSpec == CallNextBlock

SpecBlock == InitBlock /\ [][NextBlockSpec]_vars

(***************************************************************************)
(* redundancy/mod.rs and redundancy/redun.rs: the redundancy engine.       *)
(* The queue holds the plaintext of each block as it is handed to          *)
(* encrypt; the nonce, AES-CTR and the SHA-1 digests come from libraries   *)
(* and are outside the model.                                              *)
(***************************************************************************)

MAX_REDUNDANCY_BLOCKS == 1000
NONCE_LEN == 16

RECURSIVE BitOr(_, _)
BitOr(a, b) ==
    IF a = 0 /\ b = 0 THEN 0
    ELSE Max(a % 2, b % 2) + 2 * BitOr(a \div 2, b \div 2)

\* u8 ^ u8, bit by bit
RECURSIVE BitXor(_, _)
BitXor(a, b) ==
    IF a = 0 /\ b = 0 THEN 0
    ELSE (((a % 2) + (b % 2)) % 2) + 2 * BitXor(a \div 2, b \div 2)

\* redundancy(data1, data2, out), called with slices of one length
Redundancy(data1, data2) ==
    [i \in 1..Len(data1) |-> BitXor(data1[i], data2[i])]

RedundancyCopyNoTail(data1, data2) ==
    LET short == IF Len(data1) < Len(data2) THEN data1 ELSE data2
        long == IF Len(data1) < Len(data2) THEN data2 ELSE data1
    IN  Redundancy(short, SubSeq(long, 1, Len(short)))
            \o Zeros(Len(long) - Len(short))

\* redundancy_copy(data1, data2, out) with out of the longer length
RedundancyCopy(data1, data2) ==
    LET short == IF Len(data1) < Len(data2) THEN data1 ELSE data2
        long == IF Len(data1) < Len(data2) THEN data2 ELSE data1
        short_len == Len(short)
        long_xor == SubSeq(long, 1, short_len)
        long_copy == SubSeq(long, short_len + 1, Len(long))
    IN  Redundancy(short, long_xor) \o long_copy

IndexBlock(file, block, size) == [file |-> file, block |-> block, size |-> size]

\* the replication branch of build: the index and the queued bytes
Replication(block, id, size) ==
    [index |-> [kind |-> "Replication",
                original |-> IndexBlock(block.file_id, block.block_id,
                                        Len(block.data)),
                id |-> id, len |-> Len(block.data)],
     bytes |-> block.data \o Zeros(size - Len(block.data))]

\* A redundancy branch that names the right block as left and the left
\* block as right.
CreateRedundancySwapped(lblk, rblk, id, size) ==
    LET buf == RedundancyCopy(lblk.data, rblk.data)
    IN  [index |-> [kind |-> "Redundancy",
                    left |-> IndexBlock(rblk.file_id, rblk.block_id,
                                        Len(rblk.data)),
                    right |-> IndexBlock(lblk.file_id, lblk.block_id,
                                         Len(lblk.data)),
                    id |-> id, len |-> Len(buf)],
         bytes |-> IF Len(buf) < size
                   THEN buf \o Zeros(size - Len(buf)) ELSE buf]

\* the redundancy branch of build: the index and the queued bytes
CreateRedundancy(lblk, rblk, id, size) ==
    LET buf == RedundancyCopy(lblk.data, rblk.data)
    IN  [index |-> [kind |-> "Redundancy",
                    left |-> IndexBlock(lblk.file_id, lblk.block_id,
                                        Len(lblk.data)),
                    right |-> IndexBlock(rblk.file_id, rblk.block_id,
                                         Len(rblk.data)),
                    id |-> id, len |-> Len(buf)],
         bytes |-> IF Len(buf) < size
                   THEN buf \o Zeros(size - Len(buf)) ELSE buf]

\* format!("{:010}", counter): ten decimal digits, zero padded
RECURSIVE Pow10(_)
Pow10(n) == IF n = 0 THEN 1 ELSE 10 * Pow10(n - 1)

Format010(n) == [i \in 1..10 |-> (n \div Pow10(10 - i)) % 10]

\* write_out_queue: the file of the redundancy medium, its blocks and the
\* partial indices kept under its path
WriteOutQueue(key, blocks, indices, size) ==
    [path |-> key, blocks |-> blocks, indices |-> indices,
     len |-> Len(blocks) * (NONCE_LEN + size)]

\* A test that lets the queue grow past MAX_REDUNDANCY_BLOCKS.
QueueOverFull(q) == Len(q) > MAX_REDUNDANCY_BLOCKS

\* build: if self.queue.len() >= MAX_REDUNDANCY_BLOCKS
QueueFull(q) == Len(q) >= MAX_REDUNDANCY_BLOCKS

\* RedunFile::write_blocks: the bytes written for the blocks, a nonce and
\* the AES-CTR ciphertext of the block's bytes (of the same length) each
RECURSIVE WriteBlocksLen(_)
WriteBlocksLen(blocks) ==
    IF blocks = <<>> THEN 0
    ELSE IF Len(blocks) = 1 THEN NONCE_LEN + Len(blocks[1])
    ELSE LET half == Len(blocks) \div 2
         IN  WriteBlocksLen(SubSeq(blocks, 1, half))
                + WriteBlocksLen(SubSeq(blocks, half + 1, Len(blocks)))

\* one turn of the loop of build that does not break
BuildStep ==
    /\ pc = "building"
    /\ \E l \in {NextBlock(left_iter)}, r \in {NextBlock(right_iter)} :
          /\ ~(l.ret = None /\ r.ret = None)
          /\ left_iter' = l.self
          /\ right_iter' = r.self
          /\ \E rec \in {IF l.ret = None \/ r.ret = None
                         THEN Replication(IF l.ret # None THEN Unwrap(l.ret)
                                          ELSE Unwrap(r.ret),
                                          Len(queue), block_size)
                         ELSE CreateRedundancy(Unwrap(l.ret), Unwrap(r.ret),
                                               Len(queue), block_size)} :
                IF QueueFull(Append(queue, rec.bytes))
                THEN /\ redun_files' = Append(redun_files,
                            WriteOutQueue(Format010(counter),
                                          Append(queue, rec.bytes),
                                          Append(partial_indices, rec.index),
                                          block_size))
                     /\ queue' = <<>>
                     /\ partial_indices' = <<>>
                     /\ counter' = counter + 1
                ELSE /\ queue' = Append(queue, rec.bytes)
                     /\ partial_indices' = Append(partial_indices, rec.index)
                     /\ UNCHANGED <<redun_files, counter>>
    /\ UNCHANGED <<pc, block_size, file_table, iter, emitted, ret>>
    /\ UNCHANGED <<unitVars, sizeVars>>
    /\ UNCHANGED stageVars
    /\ UNCHANGED <<cycleVars, fillVars>>

\* the turn of the loop that breaks, and the statements after the loop
BuildEnd ==
    /\ pc = "building"
    /\ \E l \in {NextBlock(left_iter)}, r \in {NextBlock(right_iter)} :
          /\ l.ret = None /\ r.ret = None
          /\ left_iter' = l.self
          /\ right_iter' = r.self
    /\ IF queue # <<>>
       THEN /\ redun_files' = Append(redun_files,
                   WriteOutQueue(Format010(counter), queue, partial_indices,
                                 block_size))
            /\ partial_indices' = <<>>
       ELSE UNCHANGED <<redun_files, partial_indices>>
    /\ pc' = "built"
    /\ UNCHANGED <<queue, counter>>
    /\ UNCHANGED <<block_size, file_table, iter, emitted, ret>>
    /\ UNCHANGED <<unitVars, sizeVars>>
    /\ UNCHANGED stageVars
    /\ UNCHANGED <<cycleVars, fillVars>>

(* SpecRedun: Redundancy::build over a group of a left, a right and a      *)
(* redundancy medium                                                       *)

Group(left_files, right_files) ==
    <<[id |-> 0, files |-> left_files], [id |-> 1, files |-> right_files],
      [id |-> 2, files |-> <<>>]>>

InitRedun ==
    /\ pc = "building"
    /\ block_size \in BlockSizes
    /\ \E left_files \in SeqsUpTo(FileData, 0, MaxSideFiles),
          right_files \in SeqsUpTo(FileData, 0, MaxSideFiles) :
          file_table = FileTableNew(Group(left_files, right_files))
    /\ left_iter = BlockIterNew(block_size, FilesOfMedium(file_table, 0))
    /\ right_iter = BlockIterNew(block_size, FilesOfMedium(file_table, 1))
    /\ queue = <<>>
    /\ partial_indices = <<>>
    /\ redun_files = <<>>
    /\ counter = 0
    /\ iter = BlockIterNew(0, <<>>)
    /\ emitted = <<>>
    /\ ret = None
    /\ UnitIdle /\ SizeIdle
    /\ StageIdle /\ config = DefaultConfig /\ CycleIdle
    /\ FillIdle

NextRedun ==
    \/ BuildStep
    \/ BuildEnd

SpecRedun == InitRedun /\ [][NextRedun]_vars

(***************************************************************************)
(* block_size.rs: the block-size optimiser.  File sizes and block sizes    *)
(* are counted in bytes here.                                              *)
(***************************************************************************)

MaxStatFiles == 3

RECORD_SIZE == 64

BLOCK_SIZES ==
    <<512, 1024, 2048, 4096, 8192, 16384, 32768, 65536, 131072, 262144,
      524288, 1048576, 2097152, 4194304, 8388608, 16777216, 33554432,
      67108864, 134217728>>

\* The division taken before the multiplication: m for each started d.
DivMul(x, m, d) == (x \div d) * m

\* x * m / d in u64.  Every block size is a multiple of RECORD_SIZE, and
\* for d a multiple of m the quotient equals x / (d / m), which keeps the
\* intermediate product within the integers of the model checker.
MulDiv(x, m, d) ==
    IF d % m = 0 THEN x \div (d \div m) ELSE (x * m) \div d

\* the fold of line 55: loss + block_size - size % block_size
RECURSIVE LossFold(_, _, _)
LossFold(loss, sizes, size) ==
    IF sizes = <<>> THEN loss
    ELSE LossFold(loss + size - (Head(sizes) % size), Tail(sizes), size)

RECURSIVE RecordTableFold(_, _, _)
RecordTableFold(block_count, sizes, size) ==
    IF sizes = <<>> THEN block_count
    ELSE RecordTableFold(
            block_count + MulDiv(Head(sizes) + size - 1, RECORD_SIZE, size),
            Tail(sizes), size)

EstimateSizeOfTables(size, path_lens, sizes) ==
    RecordTableFold(0, sizes, size) + SumSeq(path_lens)

\* loss_table: (block_size, loss, size_of_tables) for each candidate
LossTable(st) ==
    [i \in 1..Len(BLOCK_SIZES) |->
        <<BLOCK_SIZES[i],
          LossFold(0, st.file_sizes, BLOCK_SIZES[i]),
          EstimateSizeOfTables(BLOCK_SIZES[i], st.path_lens, st.file_sizes)>>]

LastMinByKey(table) ==
    table[CHOOSE i \in 1..Len(table) :
            /\ \A j \in 1..Len(table) :
                  table[i][2] + table[i][3] <= table[j][2] + table[j][3]
            /\ \A j \in (i + 1)..Len(table) :
                  table[j][2] + table[j][3] > table[i][2] + table[i][3]]

\* Iterator::min_by_key over loss + size_of_tables: of several minima the
\* first is returned
MinByKey(table) ==
    table[CHOOSE i \in 1..Len(table) :
            /\ \A j \in 1..Len(table) :
                  table[i][2] + table[i][3] <= table[j][2] + table[j][3]
            /\ \A j \in 1..(i - 1) :
                  table[j][2] + table[j][3] > table[i][2] + table[i][3]]

\* block_size(): the value returned, or a panic where the percentage of
\* the log line divides by a zero sum
BlockSizeOp(st) ==
    LET best == MinByKey(LossTable(st))
        sum == SumSeq(st.file_sizes)
    IN  IF sum = 0
        THEN [panic |-> TRUE, value |-> 0]
        ELSE [panic |-> FALSE, value |-> best[1]]

(* SpecBlockSize: block_size() applied to the statistics of a file list *)

FileSizes == {0, 1000, 8193, 10000, 1000000}

PathLens == {30, 40}

\* Stats::files: the sizes and the path lengths of the same files
StatsOf(files) ==
    [file_sizes |-> [i \in 1..Len(files) |-> files[i][1]],
     path_lens |-> [i \in 1..Len(files) |-> files[i][2]]]

InitBlockSize ==
    /\ pc = "sizing"
    /\ \E files \in SeqsUpTo(FileSizes \X PathLens, 0, MaxStatFiles) :
          stats = StatsOf(files)
    /\ optimal = 0
    /\ UnitIdle /\ BlockIdle /\ RedunIdle
    /\ StageIdle /\ config = DefaultConfig /\ CycleIdle
    /\ FillIdle

CallBlockSize ==
    /\ pc = "sizing"
    /\ \E r \in {BlockSizeOp(stats)} :
          IF r.panic
          THEN pc' = "panicked" /\ UNCHANGED optimal
          ELSE pc' = "sized" /\ optimal' = r.value
    /\ UNCHANGED stats
    /\ UNCHANGED <<unitVars, blockVars, redunVars>>
    /\ UNCHANGED stageVars
    /\ UNCHANGED <<cycleVars, fillVars>>

NextBlockSize == CallBlockSize

SpecBlockSize == InitBlockSize /\ [][NextBlockSize]_vars

(***************************************************************************)
(* medium.rs, layout.rs and main.rs: run() after the disperse loop.        *)
(* The redundancy build of a group is taken here by its counts: a file of  *)
(* n bytes gives ceil(n / block_size) blocks, two streams of nL and nR     *)
(* blocks give max(nL, nR) records, spilled into files of                  *)
(* MAX_REDUNDANCY_BLOCKS records; SpecBlock and SpecRedun model the        *)
(* streamer and the engine byte by byte.  Verifile is taken to write the   *)
(* one file it is given the path of.                                       *)
(***************************************************************************)

MiB == 1048576

PathChars == 8

MEDIUM_NAMES ==
    <<"Apple", "Avocado", "Banana", "Blueberry", "Cherry", "Cranberry">>

MediumNew(name, size) ==
    [id |-> None, group_id |-> None, name |-> name, size |-> size,
     len |-> 0, files |-> <<>>, redundancy |-> FALSE]

\* Vec<File>::from(UnitSet): the files of the units, unit after unit
FilesOfSet(set) == Flatten([k \in 1..Len(set.units) |-> set.units[k].files])

\* Medium::unit_set
WithUnitSet(medium, set) ==
    [medium EXCEPT !.len = set.total, !.files = FilesOfSet(set)]

NameMediaOpAppended(unit_sets, size) ==
    LET n == Len(unit_sets)
    IN  IF n + (n \div 2) > Len(MEDIUM_NAMES)
        THEN [panic |-> TRUE, media |-> <<>>]
        ELSE [panic |-> FALSE,
              media |-> [i \in 1..n |->
                           WithUnitSet(MediumNew(MEDIUM_NAMES[i], size), unit_sets[i])]
                        \o [i \in 1..(n \div 2) |->
                           [MediumNew(MEDIUM_NAMES[n + i], size)
                               EXCEPT !.redundancy = TRUE]]]

\* run(): the data media take the first names, then a redundancy medium
\* with the next name follows every data medium of odd index; the names
\* run out in a panic
NameMediaOp(unit_sets, size) ==
    LET n == Len(unit_sets)
    IN  IF n + (n \div 2) > Len(MEDIUM_NAMES)
        THEN [panic |-> TRUE, media |-> <<>>]
        ELSE [panic |-> FALSE,
              media |-> Flatten([i \in 1..n |->
                  <<WithUnitSet(MediumNew(MEDIUM_NAMES[i], size), unit_sets[i])>>
                  \o (IF (i - 1) % 2 = 1
                      THEN <<[MediumNew(MEDIUM_NAMES[n + (i \div 2)], size)
                                 EXCEPT !.redundancy = TRUE]>>
                      ELSE <<>>)])]

NameMedia ==
    /\ pc = "done"
    /\ \E r \in {NameMediaOp(sets, medium_size)} :
          IF r.panic
          THEN pc' = "panicked" /\ UNCHANGED run_media
          ELSE pc' = "named" /\ run_media' = r.media
    /\ UNCHANGED <<layout, temp_dirs, groups, config>>
    /\ UNCHANGED <<unitVars, blockVars, redunVars, sizeVars>>
    /\ UNCHANGED <<cycleVars, fillVars>>

\* media.iter().flat_map(Medium::files)
RECURSIVE FilesOfMedia(_)
FilesOfMedia(ms) ==
    IF ms = <<>> THEN <<>> ELSE Head(ms).files \o FilesOfMedia(Tail(ms))

\* Stats::files over unit::File: sizes in bytes, lengths of logical paths
StatsOfFiles(files) ==
    [file_sizes |-> [i \in 1..Len(files) |-> files[i].len * MiB],
     path_lens |-> [i \in 1..Len(files) |-> PathChars]]

ChooseBlockSize ==
    /\ pc = "named"
    /\ stats' = StatsOfFiles(FilesOfMedia(run_media))
    /\ \E r \in {BlockSizeOp(stats')} :
          IF r.panic
          THEN pc' = "panicked" /\ UNCHANGED optimal
          ELSE pc' = "layout" /\ optimal' = r.value
    /\ UNCHANGED <<unitVars, blockVars, redunVars, stageVars>>
    /\ UNCHANGED <<cycleVars, fillVars>>

(* layout.rs: the Layout and its temporary directory *)

\* Location::new: same_fs is looked at only for a writable location and is
\* true for the source directory itself
Location(path, writable, same_fs) ==
    [path |-> path, writable |-> writable, same_fs |-> writable /\ same_fs]

\* the index of the first flag that is set, 0 for none
FindFirst(flags) ==
    IF \E i \in 1..Len(flags) : flags[i]
    THEN CHOOSE i \in 1..Len(flags) : flags[i] /\ \A j \in 1..(i - 1) : ~flags[j]
    ELSE 0

\* Layout::new: the location selected, 0 when none is writable
SelectLocation(locations) ==
    LET same_fs == [i \in 1..Len(locations) |->
                       locations[i].same_fs /\ locations[i].writable]
        other_fs == [i \in 1..Len(locations) |->
                        ~locations[i].same_fs /\ locations[i].writable]
    IN  IF FindFirst(same_fs) # 0 THEN FindFirst(same_fs)
        ELSE FindFirst(other_fs)

\* TempDir::new_in
TempDirNew(path) ==
    [location |-> path, exists |-> TRUE, removals |-> 0, links |-> <<>>]

\* TempDir::close and the drop of a TempDir: the directory is removed
TempDirRemove(dirs, i) ==
    [dirs EXCEPT ![i] = [@ EXCEPT !.exists = FALSE, !.removals = @ + 1]]

\* Layout::close: <<layout, temp_dirs>> after it
LayoutClose(l, dirs) ==
    <<[l EXCEPT !.closed = TRUE, !.temp_dir = None],
      TempDirRemove(dirs, Unwrap(l.temp_dir))>>

LayoutDropLeaks(l, dirs, debug) == <<l, dirs>>

\* Drop for Layout: without the debug feature an open layout is closed,
\* with it the temporary directory of an open layout is kept (into_path)
LayoutDrop(l, dirs, debug) ==
    IF l.closed THEN <<l, dirs>>
    ELSE IF debug THEN <<[l EXCEPT !.temp_dir = None], dirs>>
    ELSE LayoutClose(l, dirs)

\* run(): Layout::new(&start_path)
LayoutNew ==
    /\ pc = "layout"
    /\ \E locations \in {<<Location("tmp", config.tmp.writable, config.tmp.same_fs),
                          Location("source", config.source.writable, TRUE)>>} :
          IF SelectLocation(locations) = 0
          THEN /\ pc' = "failed"
               /\ UNCHANGED <<layout, temp_dirs>>
          ELSE /\ temp_dirs' = Append(temp_dirs,
                      TempDirNew(locations[SelectLocation(locations)].path))
               /\ layout' = [made |-> TRUE, closed |-> FALSE,
                             temp_dir |-> Some(Len(temp_dirs')),
                             locations |-> locations,
                             selection |-> SelectLocation(locations) - 1,
                             orders |-> <<>>]
               /\ pc' = "forcing"
    /\ UNCHANGED <<run_media, groups, config>>
    /\ UNCHANGED <<unitVars, blockVars, redunVars, sizeVars>>
    /\ UNCHANGED <<cycleVars, fillVars>>

\* run(): if let Some(work_dir) = work_dir { layout.force_location(work_dir)? }
\* The assignment to temp_dir drops the TempDir it replaces; when
\* TempDir::new_in fails the run returns the error and the layout is dropped.
ForceLocation ==
    /\ pc = "forcing"
    /\ IF config.work_dir = None
       THEN /\ pc' = "groups"
            /\ UNCHANGED <<layout, temp_dirs>>
       ELSE \E forced \in {[layout EXCEPT
                              !.locations = <<Location(Unwrap(config.work_dir),
                                                       config.forced.writable,
                                                       config.forced.same_fs)>>,
                              !.selection = 0]} :
               IF config.forced.writable
               THEN /\ temp_dirs' = Append(
                           TempDirRemove(temp_dirs, Unwrap(layout.temp_dir)),
                           TempDirNew(Unwrap(config.work_dir)))
                    /\ layout' = [forced EXCEPT !.temp_dir = Some(Len(temp_dirs'))]
                    /\ pc' = "groups"
               ELSE /\ layout' = LayoutDrop(forced, temp_dirs, config.debug)[1]
                    /\ temp_dirs' = LayoutDrop(forced, temp_dirs, config.debug)[2]
                    /\ pc' = "failed"
    /\ UNCHANGED <<run_media, groups, config>>
    /\ UNCHANGED <<unitVars, blockVars, redunVars, sizeVars>>
    /\ UNCHANGED <<cycleVars, fillVars>>

(* main.rs: the loop over the groups of media *)

\* media.chunks_mut(3): the chunk of index g, shorter when the media run out
Chunk(media, g) == SubSeq(media, 3 * g + 1, Min(3 * g + 3, Len(media)))

NumChunks(media) == (Len(media) + 2) \div 3

\* set_group_id, MediaTable::add and set_id over the media of a group
EnrolGroup(group, g) ==
    [i \in 1..Len(group) |->
        [group[i] EXCEPT !.group_id = Some(g), !.id = Some(i - 1)]]

\* index.rs FileTable::add: the entry takes the next id
IndexFileTableAdd(table, medium, file, size) ==
    Append(table, [id |-> Len(table), medium_id |-> Unwrap(medium.id),
                   path |-> file.path, size |-> size])

\* index.rs FileTable::new: the files of the media of the group, in order;
\* the size is the length of the file in bytes
RECURSIVE IndexFileTableNew(_, _)
IndexFileTableNew(table, media) ==
    IF media = <<>> THEN table
    ELSE LET medium == Head(media)
         IN  IF medium.files = <<>> THEN IndexFileTableNew(table, Tail(media))
             ELSE IndexFileTableNew(
                    IndexFileTableAdd(table, medium, Head(medium.files),
                                      Head(medium.files).len * MiB),
                    <<[medium EXCEPT !.files = Tail(@)]>> \o Tail(media))

\* the blocks BlockIter yields for a file of the given size
BlockCount(size, bs) == (size + bs - 1) \div bs

\* the blocks of the files of one medium in a file table
RECURSIVE BlocksOfMedium(_, _, _)
BlocksOfMedium(table, id, bs) ==
    IF table = <<>> THEN 0
    ELSE (IF Head(table).medium_id = id THEN BlockCount(Head(table).size, bs) ELSE 0)
         + BlocksOfMedium(Tail(table), id, bs)

\* build and write_out_queue by their counts: the records of each file written,
\* one file for every MAX_REDUNDANCY_BLOCKS records and one for the rest
RECURSIVE SpillCounts(_)
SpillCounts(n) ==
    IF n >= MAX_REDUNDANCY_BLOCKS
    THEN <<MAX_REDUNDANCY_BLOCKS>> \o SpillCounts(n - MAX_REDUNDANCY_BLOCKS)
    ELSE IF n > 0 THEN <<n>> ELSE <<>>

\* the files build pushes to the redundancy medium: named by the counter,
\* the length in bytes
RecordCounts(table, left, right, bs) ==
    SpillCounts(Max(BlocksOfMedium(table, Unwrap(left.id), bs),
                    BlocksOfMedium(table, Unwrap(right.id), bs)))

RedundancyFiles(counts, bs) ==
    [c \in 1..Len(counts) |->
        File(<<Format010(c - 1)>>, counts[c] * (NONCE_LEN + bs), FALSE)]

\* file_table.add(&redun[0], file) for every file of the redundancy medium
RECURSIVE AddRedundancyFiles(_, _, _)
AddRedundancyFiles(table, redun, files) ==
    IF files = <<>> THEN table
    ELSE AddRedundancyFiles(
            IndexFileTableAdd(table, redun, Head(files), Head(files).len),
            redun, Tail(files))

\* one turn of the loop over media.chunks_mut(3); a chunk of fewer than three
\* media fails at group[1], split_at_mut(2) or redun[0]
ProcessGroupOp(media, g, bs) ==
    LET group == EnrolGroup(Chunk(media, g), g)
        table == IndexFileTableNew(<<>>, group)
    IN  IF Len(group) < 3
        THEN [panic |-> TRUE, group |-> group, record |-> <<>>]
        ELSE LET counts == RecordCounts(table, group[1], group[2], bs)
                 files == RedundancyFiles(counts, bs)
                 redun == [group[3] EXCEPT !.files = @ \o files]
                 full == AddRedundancyFiles(table, redun, files)
             IN  [panic |-> FALSE,
                  group |-> <<group[1], group[2], redun>>,
                  record |-> <<[group_id |-> g,
                     media_table |-> [i \in 1..3 |->
                                        [id |-> i - 1, name |-> group[i].name]],
                     file_table |-> full,
                     redun_table |-> [c \in 1..Len(files) |->
                        [file |-> full[Len(table) + c].id,
                         records |-> counts[c]]],
                     redun_dir |-> [c \in 1..Len(files) |-> files[c].path],
                     index_dir |-> <<"media-table", "file-table", "redun-table">>,
                     enc_key_dir |-> <<"encryption-key">>]>>]

ReplaceChunk(media, g, group) ==
    [i \in 1..Len(media) |->
        IF i > 3 * g /\ i <= 3 * g + Len(group) THEN group[i - 3 * g] ELSE media[i]]

ProcessGroup ==
    /\ pc = "groups"
    /\ Len(groups) < NumChunks(run_media)
    /\ \E r \in {ProcessGroupOp(run_media, Len(groups), optimal)} :
          /\ run_media' = ReplaceChunk(run_media, Len(groups), r.group)
          /\ groups' = groups \o r.record
          /\ IF r.panic
             THEN /\ pc' = "panicked"
                  /\ layout' = LayoutDrop(layout, temp_dirs, config.debug)[1]
                  /\ temp_dirs' = LayoutDrop(layout, temp_dirs, config.debug)[2]
             ELSE /\ pc' = "groups"
                  /\ UNCHANGED <<layout, temp_dirs>>
    /\ UNCHANGED config
    /\ UNCHANGED <<unitVars, blockVars, redunVars, sizeVars>>
    /\ UNCHANGED <<cycleVars, fillVars>>

(* main.rs: the links of the layout, materialise and close *)

\* the orders one medium adds: Dir::file(..).link(..) for every file of the
\* medium, link_all of the index directory of its group, and link_all of the
\* directory of the encryption key unless the medium is a redundancy medium.
\* An order is taken by the medium directory below layout/, the directory
\* below that ("files" or "." for the medium directory itself) and the entry.
LinkKeyForAll(medium) == TRUE

LinkKey(medium) == ~medium.redundancy

LinkFilesOfData(medium) == IF medium.redundancy THEN <<>> ELSE medium.files

LinkFilesOf(medium) == medium.files

OrdersOfMedium(medium, grps) ==
    LET g == grps[Unwrap(medium.group_id) + 1]
        files == LinkFilesOf(medium)
    IN  [i \in 1..Len(files) |->
            [medium |-> medium.name, dir |-> "files",
             entry |-> files[i].path, source |-> files[i].path]]
        \o [e \in 1..Len(g.index_dir) |->
            [medium |-> medium.name, dir |-> ".",
             entry |-> g.index_dir[e],
             source |-> [dir |-> "index", group |-> g.group_id,
                         name |-> g.index_dir[e]]]]
        \o (IF LinkKey(medium)
            THEN [e \in 1..Len(g.enc_key_dir) |->
                    [medium |-> medium.name, dir |-> ".",
                     entry |-> g.enc_key_dir[e],
                     source |-> [dir |-> "encryption-key", group |-> g.group_id,
                                 name |-> g.enc_key_dir[e]]]]
            ELSE <<>>)

\* run(): for medium in &media { .. }
LinkFiles ==
    /\ pc = "groups"
    /\ Len(groups) = NumChunks(run_media)
    /\ layout' = [layout EXCEPT !.orders = @ \o
                    Flatten([m \in 1..Len(run_media) |->
                                OrdersOfMedium(run_media[m], groups)])]
    /\ pc' = "materialise"
    /\ UNCHANGED <<run_media, temp_dirs, groups, config>>
    /\ UNCHANGED <<unitVars, blockVars, redunVars, sizeVars>>
    /\ UNCHANGED <<cycleVars, fillVars>>

\* Layout::materialise: the orders are taken out of the layout and every one
\* becomes a link below the temporary directory
Materialise ==
    /\ pc = "materialise"
    /\ temp_dirs' = [temp_dirs EXCEPT ![Unwrap(layout.temp_dir)].links =
                        @ \o layout.orders]
    /\ layout' = [layout EXCEPT !.orders = <<>>]
    /\ pc' = "closing"
    /\ UNCHANGED <<run_media, groups, config>>
    /\ UNCHANGED <<unitVars, blockVars, redunVars, sizeVars>>
    /\ UNCHANGED <<cycleVars, fillVars>>

\* run(): #[cfg(not(feature = "debug"))] layout.close()?; Ok(()) and the drop
\* of the layout at the end of its scope
Finish ==
    /\ pc = "closing"
    /\ \E closed \in {IF config.debug THEN <<layout, temp_dirs>>
                      ELSE LayoutClose(layout, temp_dirs)} :
          /\ layout' = LayoutDrop(closed[1], closed[2], config.debug)[1]
          /\ temp_dirs' = LayoutDrop(closed[1], closed[2], config.debug)[2]
    /\ pc' = "finished"
    /\ UNCHANGED <<run_media, groups, config>>
    /\ UNCHANGED <<unitVars, blockVars, redunVars, sizeVars>>
    /\ UNCHANGED <<cycleVars, fillVars>>

\* an error returned with ? by a step between Layout::new and close: the
\* layout is dropped as run() returns
RunFails ==
    /\ pc \in {"groups", "materialise"}
    /\ layout' = LayoutDrop(layout, temp_dirs, config.debug)[1]
    /\ temp_dirs' = LayoutDrop(layout, temp_dirs, config.debug)[2]
    /\ pc' = "failed"
    /\ UNCHANGED <<run_media, groups, config>>
    /\ UNCHANGED <<unitVars, blockVars, redunVars, sizeVars>>
    /\ UNCHANGED <<cycleVars, fillVars>>

\* a panic of a step between Layout::new and close: the layout is dropped as
\* the stack unwinds
RunPanics ==
    /\ pc \in {"groups", "materialise"}
    /\ layout' = LayoutDrop(layout, temp_dirs, config.debug)[1]
    /\ temp_dirs' = LayoutDrop(layout, temp_dirs, config.debug)[2]
    /\ pc' = "panicked"
    /\ UNCHANGED <<run_media, groups, config>>
    /\ UNCHANGED <<unitVars, blockVars, redunVars, sizeVars>>
    /\ UNCHANGED <<cycleVars, fillVars>>

(* SpecBackup: run() from the scan to its return *)

NextBackup ==
    \/ NextRun
    \/ NameMedia
    \/ ChooseBlockSize
    \/ LayoutNew
    \/ ForceLocation
    \/ ProcessGroup
    \/ LinkFiles
    \/ Materialise
    \/ Finish

SpecBackup == InitRun /\ [][NextBackup]_vars

(* unitset.rs: detect_cycle *)

MaxArena == 3

MaxDepth == 2

CanonNames == 1..2

\* the canonical paths, each the sequence of its components
CanonPaths == SeqsUpTo(CanonNames, 0, MaxDepth)

\* std::path::Path::starts_with, by whole components
StartsWith(p, base) == Len(base) <= Len(p) /\ SubSeq(p, 1, Len(base)) = base

\* path.rs Path::is_ancestor: other.canonical()?.starts_with(&self.canonical()?)
IsAncestor(self, other) == StartsWith(other, self)

\* detect_cycle: the loop from the unit under the finger; after the test of
\* one unit the finger moves to its parent, and the loop breaks when that
\* parent is its own parent
RECURSIVE DetectCycle(_, _, _)
DetectCycle(path, finger, set) ==
    IF IsAncestor(path, At(set, finger).canon) \/ path = At(set, finger).canon
    THEN TRUE
    ELSE LET prev_parent == At(set, finger).parent
         IN  IF prev_parent = At(set, prev_parent).parent THEN FALSE
             ELSE DetectCycle(path, prev_parent, set)

\* a unit from_path may push after the units of the arena: one made of a
\* directory lies in the directory of its parent under a name of its own, one
\* made of a symbolic link points anywhere detect_cycle has not reported
MayPush(set, unit) ==
    /\ unit.parent < Len(set)
    /\ IsWalkOrder([i \in 1..(Len(set) + 1) |-> Append(set, unit)[i].parent])
    /\ IF unit.symlink
       THEN ~DetectCycle(unit.canon, unit.parent, set)
       ELSE /\ Len(unit.canon) > 0
            /\ Front(unit.canon) = At(set, unit.parent).canon
            /\ \A j \in 1..Len(set) :
                  ~set[j].symlink /\ set[j].parent = unit.parent
                      => set[j].canon # unit.canon

\* the arenas of n units from_path can have built; the root is its own parent
RECURSIVE ArenasOf(_)
ArenasOf(n) ==
    IF n = 1
    THEN {<<[parent |-> 0, canon |-> c, symlink |-> FALSE]>> : c \in CanonPaths}
    ELSE UNION {{Append(set, unit) :
                    unit \in {u \in [parent : 0..(n - 2), canon : CanonPaths,
                                     symlink : BOOLEAN] : MayPush(set, u)}} :
                set \in ArenasOf(n - 1)}

\* the arenas of at most max units
Arenas(max) == UNION {ArenasOf(n) : n \in 1..max}

InitCycle ==
    /\ \E set \in Arenas(MaxArena), path \in CanonPaths :
          \E parent \in 0..(Len(set) - 1) :
              cycle = [set |-> set, path |-> path, parent |-> parent,
                       result |-> None]
    /\ pc = "detecting"
    /\ UnitIdle /\ BlockIdle /\ RedunIdle /\ SizeIdle
    /\ StageIdle /\ config = DefaultConfig
    /\ FillIdle

\* from_path: detect_cycle(&path, parent, &set)
CallDetectCycle ==
    /\ pc = "detecting"
    /\ cycle' = [cycle EXCEPT
                    !.result = Some(DetectCycle(cycle.path, cycle.parent, cycle.set))]
    /\ pc' = "detected"
    /\ UNCHANGED <<unitVars, blockVars, redunVars, sizeVars, stageVars>>
    /\ UNCHANGED fillVars

NextCycle == CallDetectCycle

SpecCycle == InitCycle /\ [][NextCycle]_vars

(* Properties of the UnitSet and the disperser *)

MediaLens == [k \in 1..Len(sets) |-> sets[k].total]

AllUnits == Flatten([k \in 1..Len(sets) |-> sets[k].units])

\* C1: after every UnitSet operation, every set touched by it (receiver and
\* argument alike) has a cached total equal to the sum of its units' len.
C1_TotalLenIsSum ==
    pc # "panicked" =>
        \A k \in 1..Len(sets) : sets[k].total = SumSeq(Lens(sets[k].units))

\* C2: over merges, shift_to calls and accepted disperser steps the sum of
\* the lengths of all media stays the total length of the scanned UnitSet.
C2_LengthConserved == SumSeq(MediaLens) = scanned.total

\* C2 witness: the run ended after a merge removed a unit and a shift moved one.
C2_Witness ==
    /\ pc = "done"
    /\ last_value >= 0
    /\ Len(AllUnits) < Len(scanned.units)
    /\ scanned.total > 0

\* A step of the disperse loop that executed a candidate.
AcceptedStep == pc = "disperse" /\ pc' = "disperse" /\ sets' # sets

C4_OrderPreserved == AllUnits = scanned.units

\* C4 witness: a repeated run with two more media has ended, and shifts have
\* carried a unit to the last of them.
C4_Witness ==
    /\ pc = "dispersed"
    /\ est_media_count > EstMediaCount(scanned.total, medium_size)
    /\ Len(scanned.units) >= 3
    /\ sets[Len(sets)].units # <<>>

\* Scenario S3: units of 40, 30, 20, 10 on the first of four media.
S3 ==
    /\ Lens(scanned.units) = <<40, 30, 20, 10>>
    /\ medium_size = 40
    /\ Len(sets) = 4

\* C5 as stated: the S3 run ends with occupancies 40, 30, 20, 10 and the
\* goal met.
C5_S3GoalMet ==
    (S3 /\ pc = "dispersed") =>
        /\ MediaLens = <<40, 30, 20, 10>>
        /\ IsGoalMet(sets, mean)

\* C5 amended: the S3 run ends with occupancies 40, 30, 20, 10, one unit per
\* medium, with the goal not met: it ends because no candidate improves.
C5_S3NoImprovement ==
    (S3 /\ pc = "dispersed") =>
        /\ MediaLens = <<40, 30, 20, 10>>
        /\ \A k \in 1..4 : Len(sets[k].units) = 1
        /\ ~IsGoalMet(sets, mean)
        /\ Candidates(sets, mean) # <<>>
        /\ ~Accepts(BestCandidate(Candidates(sets, mean)).value, Measure(sets, mean))

\* C5 witness: the S3 run has ended.
C5_Witness == S3 /\ pc = "dispersed" /\ last_value >= 0

\* The paths of the proper ancestors of the unit scanned at path p.
RECURSIVE ProperAncestors(_)
ProperAncestors(p) ==
    IF p = 0 THEN {}
    ELSE {At(scanned.units, p).parent} \cup ProperAncestors(At(scanned.units, p).parent)

\* C6: after execute_merges(plan_merges()) no remaining small unit has a
\* non-small proper ancestor other than the root, and every retained unit's
\* len is the sum of the len of its files.
C6_MergeSound ==
    pc = "merged" =>
        \A k \in 1..Len(sets[1].units) :
            LET unit == sets[1].units[k]
            IN /\ IsSmall(unit) =>
                    ~\E j \in 1..Len(sets[1].units) :
                         /\ sets[1].units[j].path \in ProperAncestors(unit.path)
                         /\ sets[1].units[j].path # 0
                         /\ ~IsSmall(sets[1].units[j])
               /\ unit.len = SumSeq(FileLens(unit.files))

\* C6 witness: a merge folded a small unit into a unit other than the root.
C6_Witness ==
    /\ pc = "merged"
    /\ \E k \in 2..Len(sets[1].units) :
          Len(sets[1].units[k].files)
             > Len(At(scanned.units, sets[1].units[k].path).files)

(* Properties of the block streamer *)

\* the blocks emitted for the file with this id, in the order of emission
BlocksOf(id) ==
    LET OfFile(b) == b.file_id = id IN SelectSeq(emitted, OfFile)

BlockData(blocks) == Flatten([i \in 1..Len(blocks) |-> blocks[i].data])

\* position of the file with this id in the list given to the iterator
FilePos(id) == CHOOSE f \in 1..Len(file_table) : file_table[f].id = id

\* C7: once the iterator is exhausted, the blocks emitted for each file
\* carry block_ids 0, 1, 2, ... in the order of emission and their data
\* concatenated in that order is the file's bytes; every block of a file
\* but its last has block_size bytes; every block belongs to a file of the
\* list and the file_ids of the emitted blocks follow the input order.
C7_StreamCoverage ==
    pc = "exhausted" =>
        /\ \A f \in 1..Len(file_table) :
              LET blocks == BlocksOf(file_table[f].id)
              IN  /\ \A i \in 1..Len(blocks) : blocks[i].block_id = i - 1
                  /\ BlockData(blocks) = file_table[f].data
                  /\ \A i \in 1..(Len(blocks) - 1) :
                        Len(blocks[i].data) = block_size
        /\ \A i \in 1..Len(emitted) :
              \E f \in 1..Len(file_table) : file_table[f].id = emitted[i].file_id
        /\ \A i \in 1..Len(emitted) : \A j \in i..Len(emitted) :
              FilePos(emitted[i].file_id) <= FilePos(emitted[j].file_id)

\* an exhausted stream over an empty file followed by a file of several
\* blocks whose last block is short
C7_Witness ==
    /\ pc = "exhausted"
    /\ Len(file_table) >= 2
    /\ file_table[1].data = <<>>
    /\ Len(BlocksOf(file_table[2].id)) >= 3
    /\ Len(Last(BlocksOf(file_table[2].id)).data) < block_size
    /\ Len(Last(BlocksOf(file_table[2].id)).data) > 0

(* Properties of the redundancy engine *)

\* a file cut into blocks of size bytes, the last one possibly shorter
RECURSIVE Chunks(_, _)
Chunks(data, size) ==
    IF data = <<>> THEN <<>>
    ELSE <<SubSeq(data, 1, Min(size, Len(data)))>>
         \o Chunks(SubSeq(data, Min(size, Len(data)) + 1, Len(data)), size)

\* the block stream of a medium: the blocks of its files, file after file
Stream(medium_id) ==
    LET files == FilesOfMedium(file_table, medium_id)
    IN  Flatten([f \in 1..Len(files) |-> Chunks(files[f].data, block_size)])

\* the records emitted so far in the order of emission, each an index with
\* the plaintext block it names: those of the files written, then those of
\* the open queue
Paired(indices, blocks) ==
    [i \in 1..Len(indices) |->
        [index |-> indices[i], bytes |-> blocks[indices[i].id + 1]]]

Records ==
    Flatten([f \in 1..Len(redun_files) |->
                Paired(redun_files[f].indices, redun_files[f].blocks)])
        \o Paired(partial_indices, queue)

\* X[k]: the plaintext without its padding
Unpadded(rec) == SubSeq(rec.bytes, 1, rec.index.len)

\* the block of the given size rebuilt from the other block and X[k]
Recover(known, x, size) ==
    [i \in 1..size |-> IF i <= Len(known) THEN BitXor(known[i], x[i]) ELSE x[i]]

\* C8: at every emitted position k, a record of kind Redundancy names the
\* sizes of L[k] and R[k], and from L[k], X[k] and the sizes one rebuilds
\* R[k], from R[k], X[k] and the sizes one rebuilds L[k]; a record of kind
\* Replication has X[k], trimmed to its len, equal to the one block that
\* exists at position k.
C8_Recoverable ==
    LET recs == Records
        L == Stream(0)
        R == Stream(1)
    IN  \A k \in 1..Len(recs) :
            LET rec == recs[k]
            IN  IF rec.index.kind = "Redundancy"
                THEN /\ k <= Len(L) /\ k <= Len(R)
                     /\ rec.index.left.size = Len(L[k])
                     /\ rec.index.right.size = Len(R[k])
                     /\ Recover(L[k], Unpadded(rec), rec.index.right.size) = R[k]
                     /\ Recover(R[k], Unpadded(rec), rec.index.left.size) = L[k]
                ELSE /\ (k <= Len(L)) # (k <= Len(R))
                     /\ Unpadded(rec) = IF k <= Len(L) THEN L[k] ELSE R[k]
                     /\ rec.index.original.size = rec.index.len

\* a finished build with a Redundancy record over blocks of unequal sizes,
\* in either direction, and a Replication record
C8_Witness ==
    /\ pc = "built"
    /\ \E k \in 1..Len(Records) :
          /\ Records[k].index.kind = "Redundancy"
          /\ Records[k].index.left.size < Records[k].index.right.size
    /\ \E k \in 1..Len(Records) :
          /\ Records[k].index.kind = "Redundancy"
          /\ Records[k].index.left.size > Records[k].index.right.size
    /\ \E k \in 1..Len(Records) : Records[k].index.kind = "Replication"

\* scenario S4: the left medium holds L, the right medium holds R, the
\* block size is 5 and the build has returned
S4 ==
    /\ pc = "built"
    /\ block_size = 5
    /\ file_table = FileTableNew(Group(<<FileL>>, <<FileR>>))

\* C9 as stated: in S4 the record at position 0 is of kind Redundancy with
\* plaintext 5A 1F CA 73 57 and the record at position 1 is of kind
\* Replication with plaintext 61 62 63 64 65, the tail of L.
C9_S4Replication ==
    S4 => /\ Len(Records) >= 2
          /\ Records[1].index.kind = "Redundancy"
          /\ Unpadded(Records[1]) = <<90, 31, 202, 115, 87>>
          /\ Records[2].index.kind = "Replication"
          /\ Unpadded(Records[2]) = SubSeq(FileL, 6, 10)

\* C9 amended: in S4 exactly two records are emitted, both of kind
\* Redundancy; the one at position 0 pairs block 0 of L with block 0 of R
\* and has plaintext 5A 1F CA 73 57; the one at position 1 pairs block 1
\* of L with block 1 of R, the five zero bytes that end R, and has
\* plaintext 61 62 63 64 65, which equals the tail of L.
C9_S4Redundancy ==
    S4 => /\ Len(Records) = 2
          /\ Records[1].index.kind = "Redundancy"
          /\ Records[1].index.left = IndexBlock(0, 0, 5)
          /\ Records[1].index.right = IndexBlock(1, 0, 5)
          /\ Unpadded(Records[1]) = <<90, 31, 202, 115, 87>>
          /\ Records[2].index.kind = "Redundancy"
          /\ Records[2].index.left = IndexBlock(0, 1, 5)
          /\ Records[2].index.right = IndexBlock(1, 1, 5)
          /\ Unpadded(Records[2]) = <<97, 98, 99, 100, 101>>
          /\ Unpadded(Records[2]) = SubSeq(FileL, 6, 10)

C9_Witness == S4 /\ Len(redun_files) = 1 /\ Len(redun_files[1].blocks) = 2

(* Properties of the block-size optimiser *)

BlockSizeCandidates == {BLOCK_SIZES[i] : i \in 1..Len(BLOCK_SIZES)}

\* total(b) = SUM (b - size_i mod b) + SUM ((size_i + b - 1) * 64 div b)
\*            + SUM path_len_i
Total(b) ==
    SumSeq([i \in 1..Len(stats.file_sizes) |-> b - (stats.file_sizes[i] % b)])
    + SumSeq([i \in 1..Len(stats.file_sizes) |->
                MulDiv(stats.file_sizes[i] + b - 1, RECORD_SIZE, b)])
    + SumSeq(stats.path_lens)

IsOptimum(b) ==
    /\ b \in BlockSizeCandidates
    /\ \A c \in BlockSizeCandidates :
          /\ Total(b) <= Total(c)
          /\ Total(c) = Total(b) => b <= c

\* C10: for every non-empty population of file sizes and path lengths,
\* block_size returns, and the value it returns is a candidate of least
\* total, the smallest of the candidates of least total.
C10_ReturnsOptimum ==
    (pc # "sizing" /\ stats.file_sizes # <<>>) =>
        (pc = "sized" /\ IsOptimum(optimal))

\* what holds of block_size: whenever it returns, the value is the
\* smallest candidate of least total; it returns exactly when the sizes
\* do not sum to zero
BlockSizeOptimumOrPanic ==
    /\ pc = "sized" => IsOptimum(optimal)
    /\ pc = "panicked" <=> (pc # "sizing" /\ SumSeq(stats.file_sizes) = 0)


---------------------------------------------------------------------------
(* Properties of the whole run *)

\* the state of the run in which nothing after the unit length check has
\* happened: no media count, no disperser, no media, no layout, no workspace,
\* no group and so no redundancy file, table or key
NothingStarted ==
    /\ est_media_count = 0
    /\ Len(sets) = 1 /\ mean = [sum |-> 0, n |-> 1] /\ last_value = -1
    /\ run_media = <<>>
    /\ ~layout.made /\ temp_dirs = <<>>
    /\ groups = <<>>

SomeUnitTooLong == \E k \in 1..Len(AllUnits) : AllUnits[k].len > medium_size

\* C11: when a unit left by the merges is longer than medium_size the run
\* panics at the unit length check with nothing after the check started (no
\* disperser, no workspace, no group, redundancy file, table or key); when no
\* unit is longer the check does not end the run.
C11_OverflowFatalEarly ==
    /\ [](pc \notin {"scanned", "merged"} /\ SomeUnitTooLong
            => pc = "panicked" /\ NothingStarted)
    /\ [][pc = "merged" /\ ~SomeUnitTooLong => pc' = "estimated"]_vars

C11_Witness ==
    /\ pc = "panicked" /\ SomeUnitTooLong /\ NothingStarted
    /\ \E k \in 1..Len(AllUnits) : AllUnits[k].len <= medium_size


\* every order of the layout, queued or materialised
Orders ==
    layout.orders \o Flatten([i \in 1..Len(temp_dirs) |-> temp_dirs[i].links])

Linked == pc \in {"materialise", "closing", "finished"}

\* the medium directory of the medium holds a link to the entry of the
\* directory kept for its group
HasGroupLink(medium, dir, name) ==
    \E i \in 1..Len(Orders) :
        /\ Orders[i].medium = medium.name
        /\ Orders[i].dir = "."
        /\ Orders[i].entry = name
        /\ Orders[i].source = [dir |-> dir, group |-> Unwrap(medium.group_id),
                               name |-> name]

\* C12: once the link loop has run, the directory of a medium holds a link to
\* the encryption key of its group when the medium is a data medium, and no
\* link to any encryption key when it is a redundancy medium.
C12_KeyOnDataMediaOnly ==
    Linked =>
        \A m \in 1..Len(run_media) :
            IF run_media[m].redundancy
            THEN \A i \in 1..Len(Orders) :
                    Orders[i].medium = run_media[m].name /\ Orders[i].dir = "."
                        => Orders[i].source.dir # "encryption-key"
            ELSE HasGroupLink(run_media[m], "encryption-key", "encryption-key")

C12_Witness ==
    /\ pc = "finished"
    /\ Len(run_media) = 6
    /\ HasGroupLink(run_media[4], "encryption-key", "encryption-key")
    /\ run_media[6].redundancy
    /\ HasGroupLink(run_media[6], "index", "redun-table")


\* the orders that place an item under layout/<medium>/files/
FilesOrders(medium) ==
    SelectSeq(Orders, LAMBDA o : o.medium = medium.name /\ o.dir = "files")

\* C13 as stated: once the link loop has run, no order places an item under
\* layout/<medium>/files/ for a redundancy medium.
C13_FilesOnDataMediaOnly ==
    Linked =>
        \A m \in 1..Len(run_media) :
            run_media[m].redundancy => FilesOrders(run_media[m]) = <<>>

\* C13 amended: once the link loop has run, the orders under
\* layout/<medium>/files/ are, for every medium, one per file the medium holds,
\* in the order of its files: the source files of a data medium, and for a
\* redundancy medium the redundancy files written for its group.
C13_FilesOfEveryMedium ==
    Linked =>
        \A m \in 1..Len(run_media) :
            /\ [i \in 1..Len(FilesOrders(run_media[m])) |->
                    FilesOrders(run_media[m])[i].entry]
               = [i \in 1..Len(run_media[m].files) |-> run_media[m].files[i].path]
            /\ run_media[m].redundancy =>
                  [i \in 1..Len(run_media[m].files) |-> run_media[m].files[i].path]
                  = groups[Unwrap(run_media[m].group_id) + 1].redun_dir

C13_Witness ==
    /\ pc = "finished"
    /\ \E m \in 1..Len(run_media) :
          /\ run_media[m].redundancy
          /\ Len(FilesOrders(run_media[m])) >= 2
    /\ \E m \in 1..Len(run_media) :
          /\ ~run_media[m].redundancy
          /\ Len(FilesOrders(run_media[m])) >= 2


(* SpecLayout: the run over flat trees of large units, for every build, with
   and without --work-dir, over the writable locations of the environment, and
   with an error or a panic at any step between Layout::new and close *)

MaxLayoutUnits == 2

Configs ==
    {[debug |-> d, work_dir |-> w,
      tmp |-> [writable |-> tw, same_fs |-> ts],
      source |-> [writable |-> sw],
      forced |-> [writable |-> fw, same_fs |-> TRUE]] :
        d \in BOOLEAN, w \in {None, Some("work")},
        tw \in BOOLEAN, ts \in BOOLEAN, sw \in BOOLEAN, fw \in BOOLEAN}

InitLayout ==
    /\ \E lens \in SeqsUpTo({20, 30}, 1, MaxLayoutUnits) :
          /\ sets = <<FromPath(FlatDirs(lens))>>
          /\ scanned = FromPath(FlatDirs(lens))
    /\ medium_size = 40
    /\ pc = "scanned"
    /\ est_media_count = 0
    /\ mean = [sum |-> 0, n |-> 1]
    /\ last_value = -1
    /\ ops = 0
    /\ BlockIdle /\ RedunIdle /\ SizeIdle
    /\ StageIdle /\ config \in Configs /\ CycleIdle
    /\ FillIdle

NextLayout ==
    \/ NextBackup
    \/ RunFails
    \/ RunPanics

SpecLayout == InitLayout /\ [][NextLayout]_vars

Exited == pc \in {"finished", "failed", "panicked"}

\* C14: from the success of Layout::new on, no temporary directory is removed
\* twice and the workspace in use exists while the run goes on; when the run
\* has ended, by its return, by an error or by a panic, a build without the
\* debug feature has removed every temporary directory it made exactly once,
\* the one force_location replaced included, and a build with the debug
\* feature has left the workspace in place.
C14_ScopedWorkspace ==
    layout.made =>
        /\ \A i \in 1..Len(temp_dirs) : temp_dirs[i].removals <= 1
        /\ ~Exited => /\ layout.temp_dir # None
                      /\ temp_dirs[Unwrap(layout.temp_dir)].exists
        /\ Exited /\ ~config.debug =>
              \A i \in 1..Len(temp_dirs) :
                  ~temp_dirs[i].exists /\ temp_dirs[i].removals = 1
        /\ Exited /\ config.debug =>
              /\ temp_dirs[Len(temp_dirs)].exists
              /\ temp_dirs[Len(temp_dirs)].removals = 0

C14_Witness ==
    /\ pc = "panicked" /\ layout.made /\ ~config.debug
    /\ Len(temp_dirs) = 2
    /\ groups # <<>>
    /\ \A i \in 1..2 : ~temp_dirs[i].exists /\ temp_dirs[i].removals = 1


\* C15: the media named by the run come in triples, two data media followed
\* by one redundancy medium, so every chunk the group loop takes has three
\* media; the media of a processed group carry the group and the ids 0, 1 and
\* 2 in that order, as its media table lists them.
C15_FullTriples ==
    /\ Len(run_media) % 3 = 0
    /\ \A g \in 0..(NumChunks(run_media) - 1) :
          /\ Len(Chunk(run_media, g)) = 3
          /\ ~Chunk(run_media, g)[1].redundancy
          /\ ~Chunk(run_media, g)[2].redundancy
          /\ Chunk(run_media, g)[3].redundancy
    /\ Len(groups) <= NumChunks(run_media)
    /\ \A g \in 0..(Len(groups) - 1) :
          /\ groups[g + 1].group_id = g
          /\ \A i \in 1..Len(Chunk(run_media, g)) :
                /\ Chunk(run_media, g)[i].group_id = Some(g)
                /\ Chunk(run_media, g)[i].id = Some(i - 1)
                /\ groups[g + 1].media_table[i] =
                      [id |-> i - 1, name |-> Chunk(run_media, g)[i].name]

C15_Witness ==
    /\ pc = "finished"
    /\ Len(run_media) = 6 /\ Len(groups) = 2
    /\ run_media[6].id = Some(2) /\ run_media[6].redundancy
    /\ run_media[5].id = Some(1) /\ run_media[4].id = Some(0)


(* Properties of the disperser: the choice of the shift *)

\* medium i may be the source of a shift: it is not the last medium and holds
\* units of a positive total length
MaySource(i) ==
    /\ i < Len(sets) - 1
    /\ sets[i + 1].total > 0
    /\ sets[i + 1].units # <<>>

\* the measure after the last unit of medium i has gone to medium i + 1
MeasureAfterShift(i) ==
    LET u == Last(sets[i + 1].units).len
    IN  SumSeq([k \in 1..Len(sets) |->
            LET len == IF k = i + 1 THEN sets[k].total - u
                       ELSE IF k = i + 2 THEN sets[k].total + u
                       ELSE sets[k].total
            IN  (mean.n * len - mean.sum) * (mean.n * len - mean.sum)])

\* the step has moved the last unit of medium i, and no other unit
ShiftApplied(i) ==
    /\ Len(sets'[i + 1].units) = Len(sets[i + 1].units) - 1
    /\ Len(sets'[i + 2].units) = Len(sets[i + 2].units) + 1
    /\ \A k \in 1..Len(sets) : k \notin {i + 1, i + 2} => sets'[k] = sets[k]

\* C16: a step of the disperser that changes the media applies the shift of a
\* medium that may be a source, whose measure after the shift is the least
\* over all media that may be a source, and is less than that of every such
\* medium of a lower index.
C16_MinimalFirstShift ==
    [][pc = "disperse" /\ pc' = "disperse" /\ sets' # sets =>
          \E i \in 0..(Len(sets) - 2) :
              /\ MaySource(i)
              /\ ShiftApplied(i)
              /\ \A j \in 0..(Len(sets) - 2) :
                    MaySource(j) =>
                        /\ MeasureAfterShift(i) <= MeasureAfterShift(j)
                        /\ j < i => MeasureAfterShift(i) < MeasureAfterShift(j)]_vars

\* a shift from a medium other than the first has been applied while the
\* first one could have been a source
C16_Witness ==
    /\ pc = "disperse"
    /\ Len(sets) >= 4
    /\ sets[1].total > 0
    /\ sets[3].total > 0
    /\ last_value >= 0


(* Properties of the media count loop *)

\* no shift of the disperser would be accepted, now or after any number of
\* empty media has been added: moving the last unit of a medium lowers the
\* measure only when the medium is longer than its successor by more than the
\* unit, whatever the mean and the number of media
Stuck ==
    \A i \in 1..Len(sets) :
        sets[i].units # <<>> /\ sets[i].total > 0 =>
            sets[i].total - (IF i < Len(sets) THEN sets[i + 1].total ELSE 0)
                <= Last(sets[i].units).len

OverCapacity == \E k \in 1..Len(sets) : sets[k].total > medium_size

\* the loop has been cut by the bound on the media count
CutByBound == pc = "dispersed" /\ OverCapacity /\ est_media_count + 2 > MaxMedia

\* a stuck run stays stuck, with the same media, through the next round of
\* the loop
StuckStays ==
    [][Stuck /\ pc \in {"dispersed", "estimated", "disperse"} =>
          /\ Stuck'
          /\ \A i \in 1..Len(sets) : sets'[i] = sets[i]]_vars

C17_StuckForever ==
    /\ pc = "dispersed" /\ OverCapacity /\ Stuck
    /\ est_media_count > EstMediaCount(scanned.total, medium_size)
    /\ \A k \in 1..Len(scanned.units) : scanned.units[k].len <= medium_size


(* Properties of detect_cycle *)

\* the units on the chain of parents from the unit to the root, both included
RECURSIVE ParentChain(_, _)
ParentChain(set, i) ==
    IF At(set, i).parent = i THEN {i} ELSE {i} \cup ParentChain(set, At(set, i).parent)

AncestorOrEqual(path, canon) == StartsWith(canon, path)

\* C18: detect_cycle(D, P) returns true exactly when the canonical path of D
\* is an ancestor of, or equal to, the canonical path of a unit on the chain
\* of parents from P to the root, P and the root included.
C18_CycleIffOnChain ==
    pc = "detected" =>
        (Unwrap(cycle.result) <=>
            \E i \in ParentChain(cycle.set, cycle.parent) :
                AncestorOrEqual(cycle.path, At(cycle.set, i).canon))

\* what detect_cycle does return: the root is looked at only when the walk
\* starts at it
C18_CycleIffBelowRoot ==
    pc = "detected" =>
        (Unwrap(cycle.result) <=>
            \E i \in ParentChain(cycle.set, cycle.parent) :
                /\ i # 0 \/ cycle.parent = 0
                /\ AncestorOrEqual(cycle.path, At(cycle.set, i).canon))

C18_RootMissed ==
    /\ pc = "detected"
    /\ ~Unwrap(cycle.result)
    /\ cycle.parent # 0
    /\ cycle.path = At(cycle.set, 0).canon


(* Properties of plan_merges and execute_merges *)

\* The nearest proper ancestor of the scanned unit at path s that is not
\* small, or the root when every proper ancestor below the root is small.
NearestNonSmall(s) ==
    CHOOSE a \in ProperAncestors(s) :
        /\ a = 0 \/ ~IsSmall(At(scanned.units, a))
        /\ \A b \in ProperAncestors(s) :
              a \in ProperAncestors(b) => IsSmall(At(scanned.units, b))

\* Every scanned unit is small.
AllSmall == \A i \in 1..Len(scanned.units) : IsSmall(scanned.units[i])

\* The files of every scanned unit, in scan order.
ScannedFiles == Flatten([i \in 1..Len(scanned.units) |-> scanned.units[i].files])

\* C19: plan_merges records exactly one pair for every small unit other
\* than the root and none for any other unit; the destination of a pair is
\* the nearest proper ancestor of its source that is not small, or the root
\* when there is none below the root; when every unit is small the merges
\* leave one unit that holds all files and whose len is the total.
C19_PlanNearestNonSmall ==
    LET plan == PlanMerges(scanned)
    IN /\ \A i \in 0..(Len(scanned.units) - 1) :
             Cardinality({k \in 1..Len(plan) : plan[k][1] = i})
                = IF i # 0 /\ IsSmall(At(scanned.units, i)) THEN 1 ELSE 0
       /\ \A k \in 1..Len(plan) : plan[k][2] = NearestNonSmall(plan[k][1])
       /\ AllSmall =>
             /\ \A k \in 1..Len(plan) : plan[k][2] = 0
             /\ pc = "merged" =>
                   /\ Len(sets[1].units) = 1
                   /\ sets[1].units[1].path = 0
                   /\ sets[1].units[1].files = ScannedFiles
                   /\ sets[1].units[1].len = scanned.total
                   /\ sets[1].units[1].len = sets[1].total

\* C19 witness: three small directories in a chain were merged; the deepest
\* one was folded into the root past its small parent.
C19_Witness ==
    /\ pc = "merged"
    /\ AllSmall
    /\ Len(scanned.units) = 3
    /\ scanned.total > 0
    /\ \E k \in 1..Len(PlanMerges(scanned)) :
          LET pair == PlanMerges(scanned)[k]
          IN pair[2] # At(scanned.units, pair[1]).parent

\* The merge sources of a plan.
Sources(plan) == {plan[k][1] : k \in 1..Len(plan)}

\* Walking the plan backwards over the units left by the merge loop, every
\* removal index designates the unit scanned at that index.
RECURSIVE RemovalsHit(_, _)
RemovalsHit(units, plan) ==
    IF plan = <<>> THEN TRUE
    ELSE /\ Last(plan)[1] < Len(units)
         /\ At(units, Last(plan)[1]).path = Last(plan)[1]
         /\ RemovalsHit(RemoveAt(units, Last(plan)[1]), Front(plan))

\* The places a file takes in the units.
Holders(units, file) ==
    UNION {{<<k, j>> : j \in {i \in 1..Len(units[k].files) : units[k].files[i] = file}} :
              k \in 1..Len(units)}

\* C20: for plan = plan_merges(), execute_merges(plan) passes both of its
\* assertions, every removal index designates its planned source unit, the
\* units removed are exactly the merge sources, and every file of a removed
\* unit is held once by one retained unit.
C20_RemovesExactlySources ==
    LET plan == PlanMerges(scanned)
        merged == MergeLoop(scanned.units, plan)
        after == ExecuteMergesOp(scanned, plan).units
    IN /\ MergeAsserts(scanned, plan)
       /\ RemovalsHit(merged, plan)
       /\ {after[k].path : k \in 1..Len(after)}
             = (0..(Len(scanned.units) - 1)) \ Sources(plan)
       /\ Len(after) = Len(scanned.units) - Cardinality(Sources(plan))
       /\ \A k \in 1..Len(after) :
             after[k].parent = At(scanned.units, after[k].path).parent
       /\ \A s \in Sources(plan) :
             \A j \in 1..Len(At(scanned.units, s).files) :
                Cardinality(Holders(after, At(scanned.units, s).files[j])) = 1
       /\ pc = "scanned" => sets[1] = scanned
       /\ pc = "merged" => sets[1].units = after

\* C20 witness: two units were merged and removed, the second of them
\* holding files.
C20_Witness ==
    /\ pc = "merged"
    /\ Len(PlanMerges(scanned)) >= 2
    /\ Len(At(scanned.units, Last(PlanMerges(scanned))[1]).files) > 0
    /\ Len(sets[1].units) = Len(scanned.units) - 2


(* SpecRounded: the disperse loop with the rounding of the f64 sums *)

\* media.iter().map(UnitSet::len)
TotalsOf(media) == [k \in 1..Len(media) |-> media[k].total]

\* The media lengths after the candidate's shift.
LensAfter(media, c) == TotalsOf(CandidateExecute(media, c))

\* One iteration of disperse() whose best candidate has exactly the measure
\* of the media as they are, over other media lengths: the shift swaps the
\* lengths of two neighbouring media, measure_impl adds the same squares
\* in another order, and behind the first medium (the sum of the first two
\* squares does not depend on their order) the f64 sum of the candidate
\* comes out below that of self.measure() for some lengths, so that
\* best_candidate.value < self.measure() holds and the shift is executed.
DisperseShiftOnTie ==
    /\ pc = "disperse"
    /\ ~IsGoalMet(sets, mean)
    /\ \E candidates \in {Candidates(sets, mean)} :
          /\ candidates # <<>>
          /\ \E best_candidate \in {BestCandidate(candidates)} :
                /\ best_candidate.value = Measure(sets, mean)
                /\ LensAfter(sets, best_candidate) # TotalsOf(sets)
                /\ best_candidate.from_medium > 0
                /\ sets' = CandidateExecute(sets, best_candidate)
                /\ last_value' = best_candidate.value
    /\ UNCHANGED <<pc, scanned, medium_size, est_media_count, mean, ops>>
    /\ UNCHANGED <<blockVars, redunVars, sizeVars>>
    /\ UNCHANGED stageVars
    /\ UNCHANGED <<cycleVars, fillVars>>

NextRounded == NextDisperse \/ DisperseShiftOnTie

SpecRounded == InitDisperse /\ [][NextRounded]_vars

(* Properties of the disperser under rounding *)

\* The medium holds a unit of positive length.
HoldsData(set) == \E k \in 1..Len(set.units) : set.units[k].len > 0

\* C21: no accepted step of the disperser evacuates a medium: a medium that
\* holds a unit of positive length before the step holds a unit after it.
C21_NeverEvacuates ==
    [][pc = "disperse" /\ pc' = "disperse" =>
          \A k \in 1..Len(sets) : HoldsData(sets[k]) => sets'[k].units # <<>>]_vars

\* With exact sums the acceptance test never takes an evacuating shift.
C21_ExactNeverEvacuates ==
    [][pc = "disperse" /\ pc' = "disperse"
          /\ Accepts(last_value', Measure(sets, mean)) =>
          \A k \in 1..Len(sets) : HoldsData(sets[k]) => sets'[k].units # <<>>]_vars

(* Properties of the block lengths *)

\* the file of the list that has this id
FileOf(id) == file_table[FilePos(id)]

\* C22 as stated: every emitted block has block_size bytes of data except
\* the final block of the last file of the stream.
C22_OnlyStreamEndShort ==
    pc = "exhausted" =>
        \A i \in 1..Len(emitted) :
            \/ Len(emitted[i].data) = block_size
            \/ /\ i = Len(emitted)
               /\ emitted[i].file_id = Last(file_table).id

\* C22 amended: every emitted block has block_size bytes of data except the
\* final block of each file, which holds the rest of its file: between 1
\* and block_size bytes.
C22_OnlyFileEndShort ==
    \A i \in 1..Len(emitted) :
        LET block == emitted[i]
            rest == Len(FileOf(block.file_id).data) - block.block_id * block_size
        IN /\ Len(block.data) = Min(block_size, rest)
           /\ Len(block.data) >= 1
           /\ Len(block.data) < block_size =>
                 \/ i = Len(emitted)
                 \/ i < Len(emitted) /\ emitted[i + 1].file_id # block.file_id

\* C22 witness: a short block has been emitted for a file that is not the
\* last of the stream, and blocks of a later file follow it.
C22_Witness ==
    /\ pc = "exhausted"
    /\ \E i \in 1..(Len(emitted) - 1) :
          /\ Len(emitted[i].data) < block_size
          /\ emitted[i].block_id > 0
          /\ emitted[i + 1].file_id # emitted[i].file_id

(* Properties of the block count *)

\* C23: a file of n bytes yields exactly ceil(n / block_size) blocks, whose
\* block_ids count from 0 for every file; an empty file yields no block, a
\* file whose length is a multiple of block_size yields no empty block at
\* its end, and once next_block has returned None every later call returns
\* None and leaves the iterator as it is.
C23_BlocksPerFile ==
    /\ \A i \in 1..Len(emitted) :
          /\ Len(emitted[i].data) > 0
          /\ emitted[i].block_id =
                IF i > 1 /\ emitted[i - 1].file_id = emitted[i].file_id
                THEN emitted[i - 1].block_id + 1 ELSE 0
    /\ pc = "exhausted" =>
          /\ \A f \in 1..Len(file_table) :
                LET n == Len(file_table[f].data)
                    k == Len(BlocksOf(file_table[f].id))
                IN /\ k * block_size >= n
                   /\ (k - 1) * block_size < n
                   /\ n = 0 => k = 0
                   /\ n % block_size = 0 => k = n \div block_size
          /\ ret = None
          /\ NextBlock(iter).ret = None
          /\ NextBlock(iter).self = iter

\* C23 witness: an exhausted stream over an empty file, a file whose length
\* is a multiple of block_size and takes several blocks, and a file read
\* after it.
C23_Witness ==
    /\ pc = "exhausted"
    /\ Len(file_table) = 3
    /\ file_table[1].data = <<>>
    /\ Len(file_table[2].data) = 2 * block_size
    /\ Len(BlocksOf(file_table[2].id)) = 2
    /\ Len(BlocksOf(file_table[3].id)) >= 1

(* Properties of the order of the records *)

\* the blocks of a medium's stream as index::Block names them: file id,
\* block id within the file and size, file after file
StreamIndex(medium_id) ==
    LET files == FilesOfMedium(file_table, medium_id)
    IN  Flatten([f \in 1..Len(files) |->
                    LET chunks == Chunks(files[f].data, block_size)
                    IN  [b \in 1..Len(chunks) |->
                            IndexBlock(files[f].id, b - 1, Len(chunks[b]))]])

\* C24: with nL and nR blocks in the left and right streams, build emits
\* max(nL, nR) records; the first min(nL, nR) are of kind Redundancy and
\* pair the k-th left block with the k-th right block, the remaining ones
\* are of kind Replication and carry the remaining blocks of the longer
\* side in stream order; no Redundancy record follows a Replication record.
C24_RecordOrder ==
    LET L == StreamIndex(0)
        R == StreamIndex(1)
        lo == Min(Len(L), Len(R))
        hi == Max(Len(L), Len(R))
        recs == Records
    IN  /\ Len(recs) <= hi
        /\ pc = "built" => Len(recs) = hi
        /\ \A k \in 1..Len(recs) :
              IF k <= lo
              THEN /\ recs[k].index.kind = "Redundancy"
                   /\ recs[k].index.left = L[k]
                   /\ recs[k].index.right = R[k]
              ELSE /\ recs[k].index.kind = "Replication"
                   /\ recs[k].index.original
                         = IF Len(L) > Len(R) THEN L[k] ELSE R[k]
        /\ \A i \in 1..Len(recs) : \A j \in i..Len(recs) :
              recs[i].index.kind = "Replication"
                 => recs[j].index.kind = "Replication"

\* C24 witness: a finished build over streams of several files each, with
\* at least two Redundancy records followed by at least two Replication
\* records of the right medium.
C24_Witness ==
    /\ pc = "built"
    /\ Len(FilesOfMedium(file_table, 0)) >= 2
    /\ Len(StreamIndex(0)) >= 2
    /\ Len(StreamIndex(1)) >= Len(StreamIndex(0)) + 2
    /\ Records[Len(Records)].index.kind = "Replication"
    /\ Records[Len(Records)].index.original.block > 0

(* SpecSpill: Redundancy::build over streams of more blocks than the queue *)
(* holds                                                                   *)

MaxSpills == 1

\* a file of n blocks of the given size whose last block holds one byte
BigFile(n, size) == [i \in 1..(n * size - (size - 1)) |-> i % 256]

\* the files of one side: none, or one file of n blocks
SideFiles(n, size) == IF n = 0 THEN <<>> ELSE <<BigFile(n, size)>>

LeftBlocks ==
    {0, MAX_REDUNDANCY_BLOCKS, MaxSpills * MAX_REDUNDANCY_BLOCKS + 1}

RightBlocks ==
    {MAX_REDUNDANCY_BLOCKS - 1, MAX_REDUNDANCY_BLOCKS + 1,
     MaxSpills * MAX_REDUNDANCY_BLOCKS}

InitSpill ==
    /\ pc = "building"
    /\ block_size \in {1, 2}
    /\ \E nl \in LeftBlocks, nr \in RightBlocks :
          file_table = FileTableNew(Group(SideFiles(nl, block_size),
                                          SideFiles(nr, block_size)))
    /\ left_iter = BlockIterNew(block_size, FilesOfMedium(file_table, 0))
    /\ right_iter = BlockIterNew(block_size, FilesOfMedium(file_table, 1))
    /\ queue = <<>>
    /\ partial_indices = <<>>
    /\ redun_files = <<>>
    /\ counter = 0
    /\ iter = BlockIterNew(0, <<>>)
    /\ emitted = <<>>
    /\ ret = None
    /\ UnitIdle /\ SizeIdle
    /\ StageIdle /\ config = DefaultConfig /\ CycleIdle
    /\ FillIdle

SpecSpill == InitSpill /\ [][NextRedun]_vars

(* Properties of the spill *)

\* the number of blocks of a medium's stream
BlocksOfSide(medium_id) ==
    LET files == FilesOfMedium(file_table, medium_id)
    IN  SumSeq([f \in 1..Len(files) |-> BlockCount(Len(files[f].data), block_size)])

\* the number of records in the redundancy files written so far
RecordsWritten == SumSeq([f \in 1..Len(redun_files) |-> Len(redun_files[f].blocks)])

\* C25: build writes ceil(n / 1000) redundancy files for n records, named
\* by the counters 0, 1, 2, ... in the order of emission; every file but
\* the last holds 1000 records, the last between 1 and 1000, the queue
\* never holds more than 1000 blocks, and the bytes written for a file of
\* k records are k * (16 + block_size).
C25_SpillFiles ==
    LET n == Max(BlocksOfSide(0), BlocksOfSide(1))
    IN  /\ Len(queue) <= MAX_REDUNDANCY_BLOCKS
        /\ counter = IF pc = "built" THEN RecordsWritten \div MAX_REDUNDANCY_BLOCKS
                     ELSE Len(redun_files)
        /\ \A f \in 1..Len(redun_files) :
              LET k == Len(redun_files[f].blocks)
              IN  /\ redun_files[f].path = Format010(f - 1)
                  /\ k >= 1 /\ k <= MAX_REDUNDANCY_BLOCKS
                  /\ (f < Len(redun_files) \/ pc = "building")
                        => k = MAX_REDUNDANCY_BLOCKS
                  /\ Len(redun_files[f].indices) = k
                  /\ WriteBlocksLen(redun_files[f].blocks)
                        = k * (NONCE_LEN + block_size)
        /\ pc = "built" =>
              /\ RecordsWritten = n
              /\ (Len(redun_files) - 1) * MAX_REDUNDANCY_BLOCKS < n
                    \/ (n = 0 /\ redun_files = <<>>)
              /\ Len(redun_files) * MAX_REDUNDANCY_BLOCKS >= n

\* C25 witness: a finished build of one record more than the full queues:
\* the first file holds 1000 records and the last one the record left.
C25_Witness ==
    /\ pc = "built"
    /\ Len(redun_files) = MaxSpills + 1
    /\ Len(redun_files[1].blocks) = MAX_REDUNDANCY_BLOCKS
    /\ Len(Last(redun_files).blocks) = 1

(* SpecIndex: build followed by the redundancy index table of run() *)

\* A Block::new that names the first file of the table.
OwnBlockOfFirst(file_id, partial_index) ==
    IndexBlock(0, partial_index.id, partial_index.len)

\* run(): Block::new(file_id, partial_index.id, partial_index.len, hash)
OwnBlock(file_id, partial_index) ==
    IndexBlock(file_id, partial_index.id, partial_index.len)

\* run(): the RedundancyIndex made of a partial index
RedundancyIndex(file_id, partial_index) ==
    IF partial_index.kind = "Redundancy"
    THEN [kind |-> "Redundancy", left |-> partial_index.left,
          right |-> partial_index.right,
          own |-> OwnBlock(file_id, partial_index)]
    ELSE [kind |-> "Replication", original |-> partial_index.original,
          own |-> OwnBlock(file_id, partial_index)]

\* run(): for file in redun[0].files(): the file enters the file table and
\* its partial indices enter the redundancy table; ids notes what
\* file_table.add returned for each path
RECURSIVE IndexTableLoop(_, _, _, _)
IndexTableLoop(table, redun_table, ids, files) ==
    IF files = <<>>
    THEN [file_table |-> table, redun_table |-> redun_table, ids |-> ids]
    ELSE LET file == Head(files)
             file_id == Len(table)
         IN  IndexTableLoop(
                Append(table, [id |-> file_id, medium_id |-> 2,
                               size |-> file.len, data |-> <<>>]),
                redun_table \o [j \in 1..Len(file.indices) |->
                                   RedundancyIndex(file_id, file.indices[j])],
                Append(ids, [path |-> file.path, id |-> file_id]),
                Tail(files))

BuildIndexTable ==
    /\ pc = "built"
    /\ \E r \in {IndexTableLoop(file_table, <<>>, <<>>, redun_files)} :
          /\ file_table' = r.file_table
          /\ groups' = <<[redun_table |-> r.redun_table, ids |-> r.ids]>>
    /\ pc' = "indexed"
    /\ UNCHANGED <<block_size, iter, emitted, ret>>
    /\ UNCHANGED <<unitVars, redunVars, sizeVars>>
    /\ UNCHANGED <<run_media, layout, temp_dirs, config>>
    /\ UNCHANGED <<cycleVars, fillVars>>

NextIndex == NextRedun \/ BuildIndexTable

SpecIndex == InitSpill /\ [][NextIndex]_vars

(* Properties of the redundancy index table *)

\* the number of records in the redundancy files before file f
RecordsBefore(f) == SumSeq([g \in 1..(f - 1) |-> Len(redun_files[g].blocks)])

\* the number of files of the data media in the file table
DataFiles ==
    Len(FilesOfMedium(file_table, 0)) + Len(FilesOfMedium(file_table, 1))

\* C26: every entry of the redundancy table locates its payload: its own
\* block names the file table id given to the spill file that holds the
\* payload, ids that continue those of the data files, and the position of
\* the payload in that file, which is the id of the partial index and its
\* place in the list of the file; the entries are in emission order.
C26_EntriesLocatePayload ==
    pc = "indexed" =>
        LET table == groups[1].redun_table
            ids == groups[1].ids
            recs == Records
        IN  /\ Len(table) = Len(recs)
            /\ Len(ids) = Len(redun_files)
            /\ \A f \in 1..Len(redun_files) :
                  /\ ids[f].path = redun_files[f].path
                  /\ ids[f].id = DataFiles + f - 1
                  /\ file_table[ids[f].id + 1].id = ids[f].id
                  /\ file_table[ids[f].id + 1].medium_id = 2
                  /\ \A j \in 1..Len(redun_files[f].blocks) :
                        LET entry == table[RecordsBefore(f) + j]
                            rec == recs[RecordsBefore(f) + j]
                        IN  /\ entry.own.file = ids[f].id
                            /\ entry.own.block = j - 1
                            /\ redun_files[f].indices[j].id = j - 1
                            /\ rec.bytes = redun_files[f].blocks[entry.own.block + 1]
                            /\ entry.own.size = rec.index.len
                            /\ entry.kind = rec.index.kind
                            /\ IF entry.kind = "Redundancy"
                               THEN /\ entry.left = rec.index.left
                                    /\ entry.right = rec.index.right
                               ELSE entry.original = rec.index.original

\* C26 witness: an index table over two spill files, the second one with an
\* entry of kind Replication at position 0, after data files on both sides.
C26_Witness ==
    /\ pc = "indexed"
    /\ Len(redun_files) = MaxSpills + 1
    /\ DataFiles = 2
    /\ Last(groups[1].redun_table).kind = "Replication"
    /\ Last(groups[1].redun_table).own = IndexBlock(DataFiles + MaxSpills, 0, 1)
    /\ groups[1].redun_table[1].kind = "Redundancy"

(* Properties of the record table cost *)

\* the number of blocks of b bytes that size bytes take
BlocksIn(size, b) == (size + b - 1) \div b

\* C27 as stated: the record table cost of every candidate is 64 bytes for
\* each block of each file.
C27_CostPerBlock ==
    \A i \in 1..Len(BLOCK_SIZES) :
        RecordTableFold(0, stats.file_sizes, BLOCK_SIZES[i])
            = SumSeq([k \in 1..Len(stats.file_sizes) |->
                        BlocksIn(stats.file_sizes[k], BLOCK_SIZES[i])
                            * RECORD_SIZE])

\* C27 amended: the record table cost of every candidate is the sum of
\* (size + b - 1) * 64 / b with the division taken last; for each file it
\* is at least 64 bytes for each block and less than 64 bytes more, and it
\* is 63 bytes more where the size is a multiple of b.
C27_CostTruncatedLast ==
    \A i \in 1..Len(BLOCK_SIZES) :
        LET b == BLOCK_SIZES[i]
            n == Len(stats.file_sizes)
            cost == RecordTableFold(0, stats.file_sizes, b)
            \* (size + b - 1) * 64 / b, the whole blocks and the rest apart
            term == [k \in 1..n |->
                        LET x == stats.file_sizes[k] + b - 1
                        IN  (x \div b) * RECORD_SIZE
                                + (x % b) \div (b \div RECORD_SIZE)]
            blocks == [k \in 1..n |-> BlocksIn(stats.file_sizes[k], b)]
        IN  /\ cost = SumSeq(term)
            /\ \A k \in 1..n :
                  /\ term[k] >= blocks[k] * RECORD_SIZE
                  /\ term[k] < (blocks[k] + 1) * RECORD_SIZE
                  /\ stats.file_sizes[k] % b = 0
                        => term[k] = blocks[k] * RECORD_SIZE + RECORD_SIZE - 1
            /\ EstimateSizeOfTables(b, stats.path_lens, stats.file_sizes)
                  = cost + SumSeq(stats.path_lens)

\* C27 witness: block_size() has returned for files of 1000 and 8193 bytes,
\* whose cost at 512 bytes is 188 + 1088 and not 128 + 1088.
C27_Witness ==
    /\ pc = "sized"
    /\ stats.file_sizes = <<1000, 8193>>
    /\ RecordTableFold(0, stats.file_sizes, 512) = 188 + 1088
    /\ BlocksIn(1000, 512) = 2 /\ BlocksIn(8193, 512) = 17

(* Properties of the media count estimate *)

\* the sum of the lengths of the sets
TotalLen == SumSeq([k \in 1..Len(sets) |-> sets[k].total])

\* C28: where disperse_over is called, the number of existing sets is at
\* most the estimated media count, and at the first call the estimate is
\* the smallest even number that is at least ceil(total_len / medium_size).
C28_SetsWithinEstimate ==
    pc = "estimated" =>
        /\ Len(sets) <= est_media_count
        /\ Len(sets) = 1 =>
              /\ est_media_count % 2 = 0
              /\ est_media_count * medium_size >= TotalLen
              /\ (est_media_count - 2) * medium_size < TotalLen

\* With a scanned total of at least one byte the number of existing sets is
\* at most the estimate at every call of disperse_over.
C28_PositiveTotalWithinEstimate ==
    (pc = "estimated" /\ TotalLen > 0) =>
        /\ Len(sets) <= est_media_count
        /\ Len(sets) = 1 =>
              /\ est_media_count % 2 = 0
              /\ est_media_count * medium_size >= TotalLen
              /\ (est_media_count - 2) * medium_size < TotalLen

(* SpecNames: the disperse loop of run() followed by the medium names *)

MaxNameUnits == 5

InitNames ==
    /\ \E lens \in SeqsUpTo({20, 30, 40}, 1, MaxNameUnits) :
          /\ sets = <<FromPath(FlatDirs(lens))>>
          /\ scanned = FromPath(FlatDirs(lens))
    /\ medium_size = 40
    /\ pc = "merged"
    /\ est_media_count = 0
    /\ mean = [sum |-> 0, n |-> 1]
    /\ last_value = -1
    /\ ops = 0
    /\ BlockIdle /\ RedunIdle /\ SizeIdle
    /\ StageIdle /\ config = DefaultConfig /\ CycleIdle
    /\ FillIdle

NextNames == NextDisperse \/ NameMedia

SpecNames == InitNames /\ [][NextNames]_vars

(* Properties of the medium names *)

\* the names of the data media and of the redundancy media, in order
NamesOf(media, redundancy) ==
    LET Pick(m) == m.redundancy = redundancy
        picked == SelectSeq(media, Pick)
    IN  [i \in 1..Len(picked) |-> picked[i].name]

\* the media named after n sets: the first n names of the list for the
\* data media, the n / 2 names that follow for the redundancy media
NamedInOrder(media, n) ==
    /\ Len(media) = n + (n \div 2)
    /\ NamesOf(media, FALSE) = [i \in 1..n |-> MEDIUM_NAMES[i]]
    /\ NamesOf(media, TRUE) = [i \in 1..(n \div 2) |-> MEDIUM_NAMES[n + i]]
    /\ \A i, j \in 1..Len(media) : media[i].name = media[j].name => i = j

\* C29: whatever number of sets the disperse loop ends with, the step that
\* follows gives every data medium and every redundancy medium a name, all
\* names distinct, the data media the first names of the list in order
\* and the redundancy media the names that follow in order.
C29_AllMediaNamed ==
    [][pc = "done" => (pc' = "named" /\ NamedInOrder(run_media', Len(sets)))]_vars

\* With at most four sets at the end of the disperse loop every medium is
\* named in order, the six names being enough for four data media and two
\* redundancy media.
C29_UpToFourNamed ==
    [][(pc = "done" /\ Len(sets) <= 4)
          => (pc' = "named" /\ NamedInOrder(run_media', Len(sets)))]_vars

---------------------------------------------------------------------------
(* autofill.rs: the AutoFill iterator, hyphenation off.  A string is the   *)
(* sequence of its characters; the texts are ASCII, so that byte lengths   *)
(* and character counts agree.                                             *)

MaxText == 5

MaxWidth == 3

SPACES == {" ", "\t"}

FillChars == {"a", "b"} \cup SPACES

\* the number of leading characters of buf that are spaces (space = TRUE)
\* or that are not (space = FALSE)
RECURSIVE Leading(_, _)
Leading(buf, space) ==
    IF buf # <<>> /\ ((Head(buf) \in SPACES) <=> space)
    THEN 1 + Leading(Tail(buf), space)
    ELSE 0

\* AutoFill::spaces and AutoFill::non_spaces: the run that is split off the
\* buffer, None for an empty buffer
SplitRun(buf, space) ==
    IF buf = <<>>
    THEN [run |-> None, buf |-> buf]
    ELSE LET n == Leading(buf, space)
         IN  [run |-> Some(SubSeq(buf, 1, n)),
              buf |-> SubSeq(buf, n + 1, Len(buf))]

\* DefaultOverflow::overflow.  width < line_len fails the debug assertion
\* and the subtraction in a build that checks them; in a build that does
\* not, the difference wraps to a number larger than any string and
\* take(remaining) takes all characters.
DefaultOverflow(spaces, word, line_len, width, checked) ==
    IF width < line_len /\ checked
    THEN [panic |-> TRUE, append |-> <<>>, next |-> <<>>]
    ELSE IF Len(word) > width
         THEN LET all == spaces \o word
                  taken == IF width >= line_len
                           THEN Min(width - line_len, Len(all))
                           ELSE Len(all)
              IN  [panic |-> FALSE,
                   append |-> SubSeq(all, 1, taken),
                   next |-> SubSeq(all, taken + 1, Len(all))]
         ELSE [panic |-> FALSE, append |-> <<>>, next |-> word]

\* AutoFill::next: the loop over the words of the buffer
RECURSIVE FillLoop(_)
FillLoop(self) ==
    LET spaces == SplitRun(self.buf, TRUE)
        word == SplitRun(spaces.buf, FALSE)
    IN  IF word.run = None
        THEN [panic |-> FALSE, self |-> [self EXCEPT !.buf = word.buf]]
        ELSE LET line_len == Len(self.line)
                 new_line_len ==
                    line_len + Len(Unwrap(spaces.run)) + Len(Unwrap(word.run))
             IN  IF new_line_len > self.width
                 THEN LET directive ==
                             DefaultOverflow(Unwrap(spaces.run), Unwrap(word.run),
                                             line_len, self.width, self.checked)
                      IN  [panic |-> directive.panic,
                           self |-> [self EXCEPT
                                        !.buf = word.buf,
                                        !.line = self.line \o directive.append,
                                        !.overflow_word = Some(directive.next)]]
                 ELSE FillLoop([self EXCEPT
                                   !.buf = word.buf,
                                   !.line = self.line \o Unwrap(spaces.run)
                                                \o Unwrap(word.run)])

\* AutoFill::next
AutoFillNext(self) ==
    LET start == IF self.overflow_word # None
                 THEN [self EXCEPT !.line = Unwrap(self.overflow_word),
                                   !.overflow_word = None]
                 ELSE self
        r == FillLoop(start)
    IN  IF r.panic
        THEN [panic |-> TRUE, self |-> r.self, ret |-> None]
        ELSE IF r.self.line = <<>>
             THEN [panic |-> FALSE, self |-> r.self, ret |-> None]
             ELSE [panic |-> FALSE, self |-> [r.self EXCEPT !.line = <<>>],
                   ret |-> Some(r.self.line)]

(* SpecFill: the calls of next on an AutoFill over any text and width *)

\* AutoFill::new(s).with_width(width)
AutoFillNew(s, width, checked) ==
    [buf |-> s, width |-> width, hyphenation |-> FALSE, line |-> <<>>,
     overflow_word |-> None, checked |-> checked]

InitFill ==
    /\ \E s \in SeqsUpTo(FillChars, 0, MaxText), width \in 1..MaxWidth,
          checked \in BOOLEAN :
          af = AutoFillNew(s, width, checked)
    /\ yielded = <<>>
    /\ pc = "filling"
    /\ UnitIdle /\ BlockIdle /\ RedunIdle /\ SizeIdle
    /\ StageIdle /\ config = DefaultConfig /\ CycleIdle

\* a call of next that finds text left in the buffer or a word held over
CallNext ==
    /\ pc = "filling"
    /\ af.buf # <<>> \/ af.overflow_word # None
    /\ \E r \in {AutoFillNext(af)} :
          /\ af' = r.self
          /\ yielded' = IF r.ret = None THEN yielded
                        ELSE Append(yielded, Unwrap(r.ret))
          /\ pc' = IF r.panic THEN "panicked" ELSE "filling"
    /\ UNCHANGED <<unitVars, blockVars, redunVars, sizeVars, stageVars>>
    /\ UNCHANGED cycleVars

NextFill == CallNext

SpecFill == InitFill /\ [][NextFill]_vars

(* Properties of the filled lines *)

\* the lengths of the words of a text
RECURSIVE WordLens(_)
WordLens(s) ==
    LET spaces == SplitRun(s, TRUE)
        word == SplitRun(spaces.buf, FALSE)
    IN  IF word.run = None THEN {}
        ELSE {Len(Unwrap(word.run))} \cup WordLens(word.buf)

\* the text that is left: the line held over and the buffer
TextLeft == (IF af.overflow_word = None THEN <<>> ELSE Unwrap(af.overflow_word))
                \o af.buf

\* C30: every line the AutoFill iterator yields has at most width
\* characters.
C30_LinesWithinWidth ==
    \A i \in 1..Len(yielded) : Len(yielded[i]) <= af.width

\* Where no word of the text that is left is longer than the width, the
\* call of next does not panic and the line it yields has at most width
\* characters.
C30_ShortWordsWithinWidth ==
    [][(\A n \in WordLens(TextLeft) : n <= af.width)
          => /\ pc' # "panicked"
             /\ Len(yielded') > Len(yielded)
                   => Len(yielded'[Len(yielded')]) <= af.width]_vars
===========================================================================
